---- MODULE Spec2Model ----
(***************************************************************************)
(* Model of the AutoDNS domain health checker:                             *)
(*   - the token-bucket rate limiter of lib/autodns-client.js              *)
(*     (autodnsRate, the refill timer, rateLimitAutoDNS, shutdown);        *)
(*   - the retrying API calls built on it (queryDomains, getZone,          *)
(*     updateZone, each wrapped in pRetry);                                *)
(*   - the per-domain reconcilers of lib/spf.js, lib/dmarc.js, lib/dkim.js *)
(*     as sequenced by checkDomain in lib/domain-processor.js.             *)
(*                                                                         *)
(* Specifications:                                                         *)
(*   Spec     the limiter alone, driven by arbitrary callers, refill ticks *)
(*            and the passing of time.                                     *)
(***************************************************************************)
EXTENDS Integers, Sequences, FiniteSets, TLC

\* ------------------------------------------------------------------------
\* Bounds of the model
\* ------------------------------------------------------------------------

\* Number of rateLimitAutoDNS calls made by the callers of Spec.
MaxCalls == 7

\* Number of refill ticks that fire in Spec.
MaxTicks == 2

\* Time steps per refill interval: the clock of Spec counts units of
\* REFILL_INTERVAL / Slots milliseconds.
Slots == 2

\* ------------------------------------------------------------------------
\* Program constants
\* ------------------------------------------------------------------------

\* RATE_LIMIT.CAPACITY
CAPACITY == 3

\* RETRY_CONFIG.RETRIES
RETRIES == 3

\* ------------------------------------------------------------------------
\* State
\* ------------------------------------------------------------------------
VARIABLES
  autodnsRate,   \* [capacity, tokens, queue]: the limiter object; queue holds
                 \* the pending callers (their resolve callbacks), oldest first
  refillTimer,   \* TRUE while the interval timer is set, FALSE after shutdown
  clock,         \* time since module load, in units of REFILL_INTERVAL / Slots
  ticks,         \* number of refill ticks fired so far
  callLog,       \* history: callLog[i] = [tick, at] of the i-th rateLimitAutoDNS call
  granted,       \* history: the grants in the order they happened,
                 \* each [id, tick, at, via]
  dryRun,        \* config.dryRun
  zones,         \* the zone API's server: zone name -> [state, obj]
  api,           \* the API call in flight (or the last one finished)
  faults,        \* the failures the zone API can answer a request with
  dns,           \* DNS: lookup -> the set of answers the resolver can give
  dkimLoaded,    \* what loadDkimConfig returned: domain -> [present, selectors]
  dkimConfig,    \* the desired DKIM config: domain -> <<[selector, value], ...>>
  domain,        \* the domain checkDomain is processing
  pc,            \* position of the run inside checkDomain
  loc,           \* locals of checkDomain and of the reconciler it has called
  result,        \* the result object of checkDomain: the three statuses
  trace,         \* history: the API calls the run has made, in order
  first,         \* a run and its repetition: [phase, trace, result]
  batch,         \* processDomains: its domain list, position and report
  flat,          \* buildFlattenedSpfRecord: the calls of resolveSpfIncludes
  norm,          \* normalizeDMARC: two records and what they normalize to
  health,        \* addHealthChecks: the lookups and the results of the checks
  main           \* main(): the step it is at and how it has ended

limiterVars == <<autodnsRate, refillTimer>>
historyVars == <<clock, ticks, callLog, granted>>
apiVars == <<dryRun, zones, api, faults>>
runVars ==
  <<dns, dkimLoaded, dkimConfig, domain, pc, loc, result, trace, first,
    batch, flat, norm,
              health, main>>
vars == <<autodnsRate, refillTimer, clock, ticks, callLog, granted,
          dryRun, zones, api, faults, dns, dkimLoaded, dkimConfig, domain, pc, loc,
          result, trace, first, batch, flat, norm,
              health, main>>

\* ------------------------------------------------------------------------
\* The limiter (autodns-client.js)
\* ------------------------------------------------------------------------

\* const autodnsRate = { capacity, tokens: capacity, queue: [] }
InitialRate == [capacity |-> CAPACITY, tokens |-> CAPACITY, queue |-> <<>>]

\* Mutant of rateLimitAutoDNS: the guard tests tokens >= 0 instead of > 0, so a
\* caller is let through on an empty bucket.
rateLimitAutoDNS_OffByOne(rate, caller) ==
  IF rate.tokens >= 0
    THEN [rate |-> [rate EXCEPT !.tokens = IF @ > 0 THEN @ - 1 ELSE 0],
          resolved |-> TRUE]
    ELSE [rate |-> [rate EXCEPT !.queue = Append(@, caller)],
          resolved |-> FALSE]

\* rateLimitAutoDNS(): with a token left, take it and return a resolved
\* promise; otherwise push the caller's resolve on the queue and return a
\* pending promise.  The result is the new limiter object and whether the
\* returned promise is already resolved.
rateLimitAutoDNS(rate, caller) ==
  IF rate.tokens > 0
    THEN [rate |-> [rate EXCEPT !.tokens = @ - 1], resolved |-> TRUE]
    ELSE [rate |-> [rate EXCEPT !.queue = Append(@, caller)],
          resolved |-> FALSE]

\* The loop of the refill callback: while (tokens > 0 && queue.length > 0)
\* { tokens--; processed.push(queue.shift()) }.
RECURSIVE DrainQueue(_, _)
DrainQueue(rate, processed) ==
  IF rate.tokens > 0 /\ Len(rate.queue) > 0
    THEN DrainQueue([rate EXCEPT !.tokens = @ - 1, !.queue = Tail(@)],
                    Append(processed, Head(rate.queue)))
    ELSE [rate |-> rate, processed |-> processed]

\* Mutant of RefillCallback: the queue is served from its tail (pop instead
\* of shift).
RECURSIVE DrainQueueLifo(_, _)
DrainQueueLifo(rate, processed) ==
  IF rate.tokens > 0 /\ Len(rate.queue) > 0
    THEN DrainQueueLifo(
           [rate EXCEPT !.tokens = @ - 1,
                        !.queue = SubSeq(@, 1, Len(@) - 1)],
           Append(processed, rate.queue[Len(rate.queue)]))
    ELSE [rate |-> rate, processed |-> processed]

RefillCallback_Lifo(rate) ==
  DrainQueueLifo([rate EXCEPT !.tokens = rate.capacity], <<>>)

\* Mutant of RefillCallback: a released caller does not use up a token.
RefillCallback_NoDecrement(rate) ==
  LET n == IF Len(rate.queue) < rate.capacity THEN Len(rate.queue)
           ELSE rate.capacity
  IN [rate |-> [rate EXCEPT !.tokens = rate.capacity,
                            !.queue = SubSeq(@, n + 1, Len(@))],
      processed |-> SubSeq(rate.queue, 1, n)]

\* Mutant of RefillCallback: the capacity is added to the tokens left over.
RefillCallback_Accumulates(rate) ==
  DrainQueue([rate EXCEPT !.tokens = @ + rate.capacity], <<>>)

\* Mutant of RefillCallback: a tick releases the head of the queue only.
RefillCallback_OnePerTick(rate) ==
  IF Len(rate.queue) > 0
    THEN [rate |-> [rate EXCEPT !.tokens = rate.capacity - 1,
                                !.queue = Tail(@)],
          processed |-> <<Head(rate.queue)>>]
    ELSE [rate |-> [rate EXCEPT !.tokens = rate.capacity],
          processed |-> <<>>]

\* The setInterval callback: tokens = capacity, then release queued callers
\* from the head while tokens last; the released callbacks are called, in
\* order, once the state is updated.
RefillCallback(rate) ==
  DrainQueue([rate EXCEPT !.tokens = rate.capacity], <<>>)

\* ------------------------------------------------------------------------
\* Zones and the zone API (the HTTP server the client talks to)
\* ------------------------------------------------------------------------

\* A resource record of a zone.
Rec(name, type, value, ttl) ==
  [name |-> name, type |-> type, value |-> value, ttl |-> ttl]

\* The fields updateZone deletes from the payload (readOnlyFields).
ReadOnlyFields == {"created", "updated", "owner", "updater", "roid"}

\* A zone object as the API returns it: server-assigned fields, other zone
\* settings and the record set.
ZoneObj(origin, rr) ==
  [origin |-> origin, soa |-> "soa", created |-> "2020-01-01",
   updated |-> "2024-01-01", owner |-> "owner", updater |-> "updater",
   roid |-> "roid", resourceRecords |-> rr]

\* zone.resourceRecords, [] when the field is not there.
Records(zone) ==
  IF "resourceRecords" \in DOMAIN zone THEN zone.resourceRecords ELSE <<>>

\* zone.resourceRecords = rr on a zone object.
WithRecords(zone, rr) ==
  [f \in DOMAIN zone \cup {"resourceRecords"} |->
     IF f = "resourceRecords" THEN rr ELSE zone[f]]

\* The zone names the server is asked about; it never has a zone weg.de.
ZoneNames == {"kunde.de", "diebasis.de", "weg.de"}

\* A server without any zone.
NoZones == [z \in ZoneNames |-> [state |-> "missing", obj |-> <<>>]]

\* An address record at the apex: a record no reconciler is concerned with.
RecA == Rec("", "A", <<"192.0.2.1">>, 3600)

\* An error as axios raises it: code is error.code, status is
\* error.response.status, 0 when there is no error.response.
Err(code, status) == [code |-> code, status |-> status]

\* The failures an HTTP exchange can end with.
HttpErrors ==
  {Err("ECONNRESET", 0), Err("ETIMEDOUT", 0), Err("ENOTFOUND", 0),
   Err("ECONNREFUSED", 0),
   Err("ERR_BAD_RESPONSE", 500), Err("ERR_BAD_RESPONSE", 503),
   Err("ERR_BAD_REQUEST", 429), Err("ERR_BAD_REQUEST", 400),
   Err("ERR_BAD_REQUEST", 404)}

NotFound == Err("ERR_BAD_REQUEST", 404)

\* Response bodies: the {status: {type, text}, data} envelope.
SuccessBody(data) == [status |-> [type |-> "SUCCESS"], data |-> data]
ErrorBody == [status |-> [type |-> "ERROR"]]

\* The server answers HTTP 200 with a body whose status type is ERROR: as a
\* member of a fault set it says that the server can refuse a request this way.
StatusError == Err("", 200)

\* One HTTP exchange of an API call against the server `srv`: the set of ways
\* it can end, each [ok, body, err, srv] with the server state it leaves.
\* `errs` are the faults of the exchange: the errors the request can fail
\* with and, with StatusError, the HTTP 200 answer of status type ERROR, which
\* changes nothing on the server.  A zone the server does not have is
\* answered 404; a PUT answered SUCCESS replaces the fields sent.
Failed(e, srv) == [ok |-> FALSE, body |-> ErrorBody, err |-> e, srv |-> srv]
Answered(body, srv) ==
  [ok |-> TRUE, body |-> body, err |-> Err("", 0), srv |-> srv]

Exchange(call, srv, errs) ==
  LET z == call.zone
      failures == {Failed(e, srv) : e \in errs \ {StatusError}}
      refused == IF StatusError \in errs THEN {Answered(ErrorBody, srv)}
                 ELSE {}
  IN CASE call.op = "queryDomains" ->
            failures \cup refused \cup {Answered(SuccessBody(<<>>), srv)}
       [] srv[z].state = "missing" ->
            failures \cup {Failed(NotFound, srv)}
       [] call.op = "getZone" ->
            failures \cup refused \cup
            {Answered(IF srv[z].state = "ok"
                        THEN SuccessBody(<<srv[z].obj>>)
                        ELSE SuccessBody(<<>>), srv)}
       [] OTHER ->  \* updateZone: PUT /zone/{name}
            LET sent == call.payload
                old == srv[z].obj
                new == [f \in DOMAIN old \cup DOMAIN sent |->
                          IF f \in DOMAIN sent THEN sent[f] ELSE old[f]]
            IN failures \cup refused \cup
               {Answered(SuccessBody(<<new>>),
                         [srv EXCEPT ![z] = [state |-> "ok", obj |-> new]])}

\* ------------------------------------------------------------------------
\* The API client (autodns-client.js): queryDomains, getZone, updateZone
\* ------------------------------------------------------------------------

\* isValidDomainName on the names of the model: labels of letters, digits
\* and inner hyphens, separated by single dots.
isValidDomainName(name) == name \in {"kunde.de", "diebasis.de", "weg.de"}

\* domain.toLowerCase().trim()
LowerTrim(name) ==
  CASE name = " Kunde.DE " -> "kunde.de"
    [] OTHER -> name

\* sanitizeDomainName: [ok, name]; ok = FALSE when it throws.
sanitizeDomainName(name) ==
  LET sanitized == LowerTrim(name)
  IN [ok |-> isValidDomainName(sanitized), name |-> sanitized]

InvalidDomainName == Err("Invalid domain name", 0)

\* Mutant of isRetryableError: HTTP 429 is not treated as retryable.
isRetryableError_No429(error) ==
  \/ error.code \in {"ECONNRESET", "ETIMEDOUT", "ENOTFOUND"}
  \/ (error.status # 0 /\ error.status >= 500)

\* Mutant of isRetryableError: every HTTP error status is retried.
isRetryableError_Any4xx(error) ==
  \/ error.code \in {"ECONNRESET", "ETIMEDOUT", "ENOTFOUND"}
  \/ (error.status # 0 /\ error.status >= 400)

\* isRetryableError(error)
isRetryableError(error) ==
  \/ error.code \in {"ECONNRESET", "ETIMEDOUT", "ENOTFOUND"}
  \/ (error.status # 0 /\ error.status >= 500)
  \/ (error.status # 0 /\ error.status = 429)

\* No API call made yet.
IdleCall ==
  [op |-> "none", zone |-> "", payload |-> <<>>, phase |-> "idle",
   attempt |-> 0, acquired |-> 0, sent |-> 0, put |-> <<>>,
   lastErr |-> Err("", 0), result |-> [kind |-> "none"]]

Returned(body) == [kind |-> "value", body |-> body]
Thrown(e) == [kind |-> "throw", err |-> e]

\* The result updateZone returns in dry-run mode.
DryRunResult ==
  [status |-> [type |-> "SUCCESS", text |-> "Dry-run mode: no changes made"]]

\* Mutant of UpdatePayload: roid is not among the fields deleted.
UpdatePayload_KeepsRoid(zoneData) ==
  [f \in DOMAIN zoneData \ (ReadOnlyFields \ {"roid"}) |-> zoneData[f]]

\* const updatePayload = { ...zoneData }; readOnlyFields.forEach(delete ...)
UpdatePayload(zoneData) ==
  [f \in DOMAIN zoneData \ ReadOnlyFields |-> zoneData[f]]

\* Mutant of BeginCall: updateZone does not look at config.dryRun.
BeginCall_IgnoresDryRun(op, name, zoneData, dry) ==
  LET s == IF op = "queryDomains" THEN [ok |-> TRUE, name |-> ""]
           ELSE sanitizeDomainName(name)
      call == [IdleCall EXCEPT !.op = op, !.zone = s.name,
                               !.payload = zoneData]
  IN IF ~s.ok
       THEN [call EXCEPT !.phase = "done", !.result = Thrown(InvalidDomainName)]
       ELSE [call EXCEPT !.phase = "acquire"]

\* Mutant of BeginCall: updateZone in dry-run mode rejects instead of
\* returning a result.
BeginCall_DryRunThrows(op, name, zoneData, dry) ==
  LET s == IF op = "queryDomains" THEN [ok |-> TRUE, name |-> ""]
           ELSE sanitizeDomainName(name)
      call == [IdleCall EXCEPT !.op = op, !.zone = s.name,
                               !.payload = zoneData]
  IN IF ~s.ok
       THEN [call EXCEPT !.phase = "done", !.result = Thrown(InvalidDomainName)]
       ELSE IF op = "updateZone" /\ dry
         THEN [call EXCEPT !.phase = "done",
                           !.result = Thrown(Err("dry-run", 0))]
         ELSE [call EXCEPT !.phase = "acquire"]

\* Entry of queryDomains / getZone / updateZone up to the call of pRetry:
\* the zone name is sanitized (a throw ends the call), and updateZone in
\* dry-run mode returns its synthetic result without entering pRetry.
BeginCall(op, name, zoneData, dry) ==
  LET s == IF op = "queryDomains" THEN [ok |-> TRUE, name |-> ""]
           ELSE sanitizeDomainName(name)
      call == [IdleCall EXCEPT !.op = op, !.zone = s.name,
                               !.payload = zoneData]
  IN IF ~s.ok
       THEN [call EXCEPT !.phase = "done", !.result = Thrown(InvalidDomainName)]
       ELSE IF op = "updateZone" /\ dry
         THEN [call EXCEPT !.phase = "done", !.result = Returned(DryRunResult)]
         ELSE [call EXCEPT !.phase = "acquire"]

\* Mutant of SettleAttempt: one retry too many (attempt <= RETRIES + 1).
SettleAttempt_OneMore(call, x) ==
  IF x.ok
    THEN [call EXCEPT !.phase = "done", !.result = Returned(x.body)]
    ELSE LET failed == [call EXCEPT !.lastErr = x.err]
         IN IF ~isRetryableError(x.err)
              THEN [failed EXCEPT !.phase = "done", !.result = Thrown(x.err)]
              ELSE IF call.attempt <= RETRIES + 1
                THEN [failed EXCEPT !.phase = "acquire"]
                ELSE [failed EXCEPT !.phase = "done",
                                    !.result = Thrown(x.err)]

\* The end of one attempt inside pRetry: a response is returned; an error
\* that is not retryable is wrapped in AbortError, which makes pRetry reject
\* at once with the error; a retryable error is thrown to pRetry, which runs
\* the function again while retries are left ({retries: RETRIES}) and
\* otherwise rejects with the error.  lastErr is the error handed to
\* onFailedAttempt.
SettleAttempt(call, x) ==
  IF x.ok
    THEN [call EXCEPT !.phase = "done", !.result = Returned(x.body)]
    ELSE LET failed == [call EXCEPT !.lastErr = x.err]
         IN IF ~isRetryableError(x.err)
              THEN [failed EXCEPT !.phase = "done", !.result = Thrown(x.err)]
              ELSE IF call.attempt <= RETRIES
                THEN [failed EXCEPT !.phase = "acquire"]
                ELSE [failed EXCEPT !.phase = "done",
                                    !.result = Thrown(x.err)]

\* What the attempt sends: updateZone sends the payload without the
\* read-only fields.
Request(call) ==
  IF call.op = "updateZone"
    THEN [call EXCEPT !.payload = UpdatePayload(call.payload)]
    ELSE call

\* An attempt starts: await rateLimitAutoDNS().
ApiAcquire ==
  /\ api.phase = "acquire"
  /\ LET r == rateLimitAutoDNS(autodnsRate, "api")
     IN /\ autodnsRate' = r.rate
        /\ api' = [api EXCEPT !.attempt = @ + 1,
                              !.phase = IF r.resolved THEN "request" ELSE "queued",
                              !.acquired = IF r.resolved THEN @ + 1 ELSE @]
  /\ UNCHANGED <<refillTimer, zones, dryRun, faults, historyVars, runVars>>

\* The refill timer fires while the client runs.
ApiTick ==
  /\ refillTimer
  /\ LET r == RefillCallback(autodnsRate)
         released == \E i \in DOMAIN r.processed : r.processed[i] = "api"
     IN /\ autodnsRate' = r.rate
        /\ api' = IF released
                    THEN [api EXCEPT !.phase = "request", !.acquired = @ + 1]
                    ELSE api
  /\ UNCHANGED <<refillTimer, zones, dryRun, faults, historyVars, runVars>>

\* The attempt's HTTP request is sent and answered.
ApiRequest ==
  /\ api.phase = "request"
  /\ \E x \in Exchange(Request(api), zones, faults) :
       /\ api' = SettleAttempt([api EXCEPT !.sent = @ + 1,
                                           !.put = Request(api).payload], x)
       /\ zones' = x.srv
  /\ UNCHANGED <<autodnsRate, refillTimer, dryRun, faults, historyVars, runVars>>

\* ------------------------------------------------------------------------
\* Text values, DNS answers and configuration
\* ------------------------------------------------------------------------

\* A string is the sequence of its tokens: a whitespace character, a ';',
\* or a maximal run of other characters.  null and '' are the empty sequence.
WS == {" ", "\t"}
Null == <<>>

\* config.expectedSpf
ExpectedSpf ==
  <<"v=spf1", " ", "a", " ", "mx", " ", "include:_spf.diebasis.de", " ",
    "-all">>

\* config.expectedDmarc (the default)
ExpectedDmarc ==
  <<"v=DMARC1", ";", "p=reject", ";", "sp=reject", ";", "adkim=s", ";",
    "aspf=s", ";", "rua=mailto:dmarc-reports@diebasis.de", ";",
    "ruf=mailto:dmarc-failures@diebasis.de", ";", "fo=d:s">>

\* config.dmarcReportAuthDomain and config.dkimSelectors (the defaults)
dmarcReportAuthDomain == "diebasis.de"
dkimSelectors == <<"s1", "s2">>

\* Other TXT values found in DNS and in zones.
OldSpf == <<"v=spf1", " ", "mx", " ", "~all">>
Verification == <<"google-site-verification=abc">>
OldDmarc == <<"v=DMARC1", ";", " ", "p=none">>
SpacedDmarc ==
  <<"v=DMARC1", ";", " ", "p=reject", ";", " ", "sp=reject", ";", " ",
    "adkim=s", ";", " ", "aspf=s", ";", " ", "\t",
    "rua=mailto:dmarc-reports@diebasis.de", ";", " ",
    "ruf=mailto:dmarc-failures@diebasis.de", ";", " ", "fo=d:s", " ">>
DkimKey == <<"v=DKIM1;", " ", "k=rsa;", " ", "p=MIIBNEW">>
DkimKeySpaced == <<" ", "v=DKIM1;", " ", " ", "k=rsa;", "\t", "p=MIIBNEW">>
DkimOldKey == <<"v=DKIM1;", " ", "k=rsa;", " ", "p=MIIBOLD">>
Blank == <<" ">>

\* record.startsWith(word), for a word that is a whole token.
StartsWith(s, word) == Len(s) > 0 /\ s[1] = word

\* s.trim()
RECURSIVE DropLeadingWs(_)
DropLeadingWs(s) ==
  IF Len(s) > 0 /\ Head(s) \in WS THEN DropLeadingWs(Tail(s)) ELSE s

RECURSIVE DropTrailingWs(_)
DropTrailingWs(s) ==
  IF Len(s) > 0 /\ s[Len(s)] \in WS
    THEN DropTrailingWs(SubSeq(s, 1, Len(s) - 1))
    ELSE s

Trim(s) == DropTrailingWs(DropLeadingWs(s))

\* Mutant of StripAfterSemicolon: only one whitespace character after a
\* semicolon is removed.
StripAfterSemicolon_OneCharacter(s) ==
  LET drop == {i \in DOMAIN s : i > 1 /\ s[i - 1] = ";" /\ s[i] \in WS}
      kept(i) == i \notin drop
      places == SelectSeq([i \in DOMAIN s |-> i], kept)
  IN [k \in DOMAIN places |-> s[places[k]]]

\* s.replace(/;\s*/g, ';')
RECURSIVE StripAfterSemicolon(_)
StripAfterSemicolon(s) ==
  IF Len(s) = 0 THEN <<>>
  ELSE IF Head(s) = ";"
    THEN <<";">> \o StripAfterSemicolon(DropLeadingWs(Tail(s)))
    ELSE <<Head(s)>> \o StripAfterSemicolon(Tail(s))

\* s.replace(/\s+/g, ' ')
RECURSIVE CollapseWs(_)
CollapseWs(s) ==
  IF Len(s) = 0 THEN <<>>
  ELSE IF Head(s) \in WS
    THEN <<" ">> \o CollapseWs(DropLeadingWs(s))
    ELSE <<Head(s)>> \o CollapseWs(Tail(s))

\* Mutant of normalizeDMARC: whitespace after a semicolon is kept.
normalizeDMARC_KeepsSpaces(dmarc) ==
  IF dmarc = Null THEN Null
  ELSE Trim(CollapseWs(dmarc))

\* normalizeDMARC(dmarc)
normalizeDMARC(dmarc) ==
  IF dmarc = Null THEN Null
  ELSE Trim(CollapseWs(StripAfterSemicolon(dmarc)))

\* Mutant of normalize: the value is trimmed, its whitespace runs are kept.
normalize_TrimOnly(s) == Trim(s)

\* const normalize = (s) => (s || '').replace(/\s+/g, ' ').trim()
normalize(s) == Trim(CollapseWs(s))

\* The answer of a DNS lookup: the records, or the error code it fails with.
\* LATE stands for an answer that takes longer than 5 seconds.
DnsRecords(records) == [ok |-> TRUE, records |-> records, code |-> ""]
DnsError(code) == [ok |-> FALSE, records |-> <<>>, code |-> code]

\* The index of the first TRUE of a sequence of booleans, 0 when there is
\* none: the element a loop with break stops at, or filter(...)[0].
FirstTrue(flags) ==
  LET hits == {i \in DOMAIN flags : flags[i]}
  IN IF hits = {} THEN 0 ELSE CHOOSE i \in hits : \A j \in hits : i <= j

\* records.filter(record => record.startsWith(word))[0], null for none
FirstStartingWith(records, word) ==
  LET k == FirstTrue([i \in DOMAIN records |-> StartsWith(records[i], word)])
  IN IF k = 0 THEN Null ELSE records[k]

\* The outcome of a function that returns a value or throws.
Value(v) == [ok |-> TRUE, value |-> v, err |-> Err("", 0)]
Throws(e) == [ok |-> FALSE, value |-> Null, err |-> e]

\* error.message
Message(e) ==
  IF e.status # 0
    THEN "Request failed with status code " \o ToString(e.status)
    ELSE e.code

\* Mutant of getSPFRecord: a name without TXT records is a failed lookup.
getSPFRecord_AbsenceThrows(answer) ==
  IF answer.ok
    THEN Value(FirstStartingWith(answer.records, "v=spf1"))
    ELSE Throws(Err(answer.code, 0))

\* getSPFRecord(domain), given the answer of resolveTxt(domain)
getSPFRecord(answer) ==
  IF answer.ok
    THEN Value(FirstStartingWith(answer.records, "v=spf1"))
    ELSE IF answer.code \in {"ENODATA", "ENOTFOUND"}
      THEN Value(Null)
      ELSE Throws(Err(answer.code, 0))

\* getDMARCRecord(domain), given the answer of resolveTxt('_dmarc.' + domain)
getDMARCRecord(answer) ==
  IF answer.ok
    THEN Value(FirstStartingWith(answer.records, "v=DMARC1"))
    ELSE IF answer.code \in {"ENODATA", "ENOTFOUND"}
      THEN Value(Null)
      ELSE Throws(Err(answer.code, 0))

\* record.includes('v=DKIM1') || record.includes('k=rsa') ||
\* record.includes('p='), on the tokens of the model.
LooksLikeDkim(r) ==
  \E i \in DOMAIN r :
    r[i] \in {"v=DKIM1;", "k=rsa;", "p=MIIBNEW", "p=MIIBOLD"}

\* One pass of the loop of checkDKIMRecords: the entry pushed for `selector`
\* given the answer of resolveTxt(selector + '._domainkey.' + domain), as a
\* sequence of zero or one entries.
DkimEntry(selector, found, fullValue) ==
  [selector |-> selector, found |-> found, fullValue |-> fullValue]

checkDKIMSelector(selector, answer) ==
  IF answer.ok
    THEN LET k == FirstTrue([i \in DOMAIN answer.records |->
                               LooksLikeDkim(answer.records[i])])
         IN IF k # 0 THEN <<DkimEntry(selector, TRUE, answer.records[k])>>
            ELSE <<>>
    ELSE IF answer.code \notin {"ENODATA", "ENOTFOUND"}
      THEN <<DkimEntry(selector, FALSE, Null)>>
      ELSE <<>>

\* usesAutoDNSNameservers(domain), given the answer of resolveNs(domain):
\* some nameserver, lower-cased and without its trailing dot, is one of the
\* AutoDNS nameservers or a subdomain of one.
IsAutoDnsNameserver(ns) == ns \in {"a.ns14.net", "A.NS14.NET.", "b.ns14.net"}

\* Mutant of usesAutoDNSNameservers: a failed lookup counts as delegated.
usesAutoDNSNameservers_TrueOnError(answer) ==
  \/ ~answer.ok
  \/ \E i \in DOMAIN answer.records : IsAutoDnsNameserver(answer.records[i])

usesAutoDNSNameservers(answer) ==
  /\ answer.ok
  /\ \E i \in DOMAIN answer.records : IsAutoDnsNameserver(answer.records[i])

\* The lookups of a run and the answers the resolver can give to each.
Lookups == {"ns", "spf", "dmarc", "s1", "s2"}

DnsAnswers(lookup) ==
  CASE lookup = "ns" ->
         {DnsRecords(<<"ns1.example.net", "A.NS14.NET.">>),
          DnsRecords(<<"ns1.example.net">>), DnsRecords(<<>>),
          DnsError("ESERVFAIL")}
    [] lookup = "spf" ->
         {DnsRecords(<<ExpectedSpf>>), DnsRecords(<<Verification, OldSpf>>),
          DnsRecords(<<Verification>>), DnsError("ENODATA"),
          DnsError("ENOTFOUND"), DnsError("ESERVFAIL"), DnsError("LATE")}
    [] lookup = "dmarc" ->
         {DnsRecords(<<ExpectedDmarc>>), DnsRecords(<<SpacedDmarc>>),
          DnsRecords(<<OldDmarc>>), DnsError("ENODATA"),
          DnsError("ENOTFOUND"), DnsError("ESERVFAIL")}
    [] lookup = "s1" ->
         {DnsRecords(<<DkimKey>>), DnsRecords(<<DkimOldKey>>),
          DnsRecords(<<Verification>>), DnsError("ENODATA"),
          DnsError("ESERVFAIL")}
    [] OTHER ->
         {DnsRecords(<<Verification, DkimKey>>), DnsError("ENOTFOUND")}

\* The domains a run processes; the last is not a valid domain name.
Domains == {"kunde.de", "diebasis.de", "-kunde.de"}

\* The desired DKIM configurations of a domain, each a sequence of
\* [selector, value] in the order of the keys of the JSON object; processDomains
\* gives a domain without an entry the entry {default: ''}.
DkimDesired(selector, value) == [selector |-> selector, value |-> value]

DkimConfigs ==
  {<<DkimDesired("default", Null)>>,
   <<DkimDesired("s1", DkimKeySpaced), DkimDesired("s2", Blank)>>,
   <<DkimDesired("s1", DkimKey), DkimDesired("s2", DkimKey)>>}

\* What loadDkimConfig returned for a domain: its entry, or no entry.
NoEntry == [present |-> FALSE, selectors |-> <<>>]
Entry(selectors) == [present |-> TRUE, selectors |-> selectors]
LoadedEntries == {NoEntry} \cup {Entry(c) : c \in DkimConfigs}

\* if (!dkimConfig[domainName]) dkimConfig[domainName] = { default: '' }
ensureEntry(e) ==
  IF e.present THEN e.selectors ELSE <<DkimDesired("default", Null)>>

\* ------------------------------------------------------------------------
\* The reconcilers (spf.js, dmarc.js, dkim.js): read a zone, edit one record,
\* write the zone
\* ------------------------------------------------------------------------

\* The loop `for (record of zone.resourceRecords) if (match) { record.value =
\* value; record.ttl = 300; found = true; break }` followed by `if (!found)
\* zone.resourceRecords.push({name, type: 'TXT', value, ttl: 300})`, k being
\* the index of the first match, 0 when there is none.

\* Mutant of SetOrPush: the record list sent holds the edited record only.
SetOrPush_DropsOthers(rr, k, name, value) ==
  <<Rec(name, "TXT", value, 300)>>

\* Mutant of SetOrPush: the ttl of an existing record is left as it was.
SetOrPush_KeepsTtl(rr, k, name, value) ==
  IF k # 0
    THEN [rr EXCEPT ![k] = [@ EXCEPT !.value = value]]
    ELSE Append(rr, Rec(name, "TXT", value, 300))

SetOrPush(rr, k, name, value) ==
  IF k # 0
    THEN [rr EXCEPT ![k] = [@ EXCEPT !.value = value, !.ttl = 300]]
    ELSE Append(rr, Rec(name, "TXT", value, 300))

\* !zoneInfo.data || !Array.isArray(zoneInfo.data) || data.length === 0
HasZoneData(body) == "data" \in DOMAIN body /\ Len(body.data) > 0

InvalidZoneData == Err("Invalid zone data received", 0)
ApexCnameConflict ==
  Err("Apex has a CNAME record; cannot add/update SPF TXT at zone apex due to DNS constraints", 0)

\* selector + '._domainkey' and domainName + '._report._dmarc'
DkimRecordName(selector) == selector \o "._domainkey"
ReportRecordName(domainName) == domainName \o "._report._dmarc"

\* The record tests of the four reconcilers, and the index of the first
\* record of a list that passes.
IsSpfRecord(r) ==
  r.type = "TXT" /\ r.name \in {"", "@"} /\ StartsWith(r.value, "v=spf1")
IsDmarcRecord(r) == r.type = "TXT" /\ r.name = "_dmarc"
IsNamedTxt(r, name) == r.type = "TXT" /\ r.name = name
FirstSpfRecord(rr) == FirstTrue([k \in DOMAIN rr |-> IsSpfRecord(rr[k])])
FirstDmarcRecord(rr) == FirstTrue([k \in DOMAIN rr |-> IsDmarcRecord(rr[k])])
FirstNamedTxt(rr, name) ==
  FirstTrue([k \in DOMAIN rr |-> IsNamedTxt(rr[k], name)])
\* Mutant of hasApexCname: the apex is looked for under the name '@' only.
hasApexCname_AtSignOnly(rr) ==
  \E i \in DOMAIN rr : rr[i].type = "CNAME" /\ rr[i].name = "@"

hasApexCname(rr) ==
  \E i \in DOMAIN rr : rr[i].type = "CNAME" /\ rr[i].name \in {"", "@"}

\* The part of a reconciler between its getZone and its updateZone, given
\* what getZone returned: [ok, write, zone, err].  ok = FALSE: it throws err;
\* write = FALSE: it ends without a write; otherwise it calls updateZone with
\* `zone`, the zone object read with its record list edited.
EditFailed(e) == [ok |-> FALSE, write |-> FALSE, zone |-> <<>>, err |-> e]
EditDone == [ok |-> TRUE, write |-> FALSE, zone |-> <<>>, err |-> Err("", 0)]
EditWrite(zone) ==
  [ok |-> TRUE, write |-> TRUE, zone |-> zone, err |-> Err("", 0)]

\* updateDomainSPFRecord(domainName, spfValue) between read and write
updateDomainSPFRecord(zoneInfo, spfValue) ==
  IF ~HasZoneData(zoneInfo) THEN EditFailed(InvalidZoneData)
  ELSE LET zone == zoneInfo.data[1]
           rr == Records(zone)
       IN IF hasApexCname(rr) THEN EditFailed(ApexCnameConflict)
          ELSE EditWrite(WithRecords(zone,
                 SetOrPush(rr, FirstSpfRecord(rr), "", spfValue)))

\* updateDomainDMARCRecord(domainName, dmarcValue) between read and write
updateDomainDMARCRecord(zoneInfo, dmarcValue) ==
  IF ~HasZoneData(zoneInfo) THEN EditFailed(InvalidZoneData)
  ELSE LET zone == zoneInfo.data[1]
           rr == Records(zone)
       IN EditWrite(WithRecords(zone,
            SetOrPush(rr, FirstDmarcRecord(rr), "_dmarc", dmarcValue)))

\* Mutant of addDMARCReportAuthRecord: a record of the name counts as found
\* only when it has the value 'v=DMARC1'.
addDMARCReportAuthRecord_MatchesValue(zoneInfo, domainName) ==
  IF ~HasZoneData(zoneInfo) THEN EditFailed(InvalidZoneData)
  ELSE LET zone == zoneInfo.data[1]
           rr == Records(zone)
           recordName == ReportRecordName(domainName)
       IN IF \E k \in DOMAIN rr :
               IsNamedTxt(rr[k], recordName) /\ rr[k].value = <<"v=DMARC1">>
            THEN EditDone
            ELSE EditWrite(WithRecords(zone,
                   Append(rr, Rec(recordName, "TXT", <<"v=DMARC1">>, 300))))

\* addDMARCReportAuthRecord(domainName) between read and write
addDMARCReportAuthRecord(zoneInfo, domainName) ==
  IF ~HasZoneData(zoneInfo) THEN EditFailed(InvalidZoneData)
  ELSE LET zone == zoneInfo.data[1]
           rr == Records(zone)
           recordName == ReportRecordName(domainName)
       IN IF FirstNamedTxt(rr, recordName) # 0
            THEN EditDone
            ELSE EditWrite(WithRecords(zone,
                   Append(rr, Rec(recordName, "TXT", <<"v=DMARC1">>, 300))))

\* updateDomainDKIMRecord(domainName, selector, dkimValue) between read and
\* write
updateDomainDKIMRecord(zoneInfo, selector, dkimValue) ==
  IF ~HasZoneData(zoneInfo) THEN EditFailed(InvalidZoneData)
  ELSE LET zone == zoneInfo.data[1]
           rr == Records(zone)
           recordName == DkimRecordName(selector)
       IN EditWrite(WithRecords(zone,
            SetOrPush(rr, FirstNamedTxt(rr, recordName), recordName,
                      dkimValue)))

\* rr.name.endsWith('._domainkey') and rr.name.replace('._domainkey', ''),
\* on the record names of the model.
SelectorNames == {"s1", "s2", "default"}
EndsWithDomainkey(name) == \E s \in SelectorNames : name = DkimRecordName(s)
SelectorOf(name) == CHOOSE s \in SelectorNames : name = DkimRecordName(s)

\* listZoneDKIMRecords(domainName), given how its getZone call ended.
RECURSIVE ZoneDkimEntries(_)
ZoneDkimEntries(rr) ==
  IF Len(rr) = 0 THEN <<>>
  ELSE LET r == Head(rr)
       IN (IF r.type = "TXT" /\ EndsWithDomainkey(r.name)
             THEN <<DkimEntry(SelectorOf(r.name), TRUE, r.value)>>
             ELSE <<>>) \o ZoneDkimEntries(Tail(rr))

listZoneDKIMRecords(res) ==
  IF res.kind = "throw" THEN <<>>
  ELSE IF ~HasZoneData(res.body) THEN <<>>
  ELSE ZoneDkimEntries(Records(res.body.data[1]))

\* ------------------------------------------------------------------------
\* checkDomain (domain-processor.js): the run on one domain
\* ------------------------------------------------------------------------

\* A status string of the result object, as its kind and the text it carries:
\*   'ok'                               Status("ok", <<>>)
\*   'needs-update'                     Status("needs-update", <<>>)
\*   'error'                            Status("error", <<>>)
\*   'error "<message>"'                Status("error", <<message>>)
\*   'ok - updated from "<value>"'      Status("ok-updated", value)
\*   'skipped'                          Status("skipped", <<>>)
\*   'skipped - not using AutoDNS nameservers'
\*                                      Status("skipped", NotAutoDns)
\*   'ok - selectors: s1, s2'           Status("ok-selectors", <<"s1", "s2">>)
\*   'fail "No DKIM records found"'     Status("fail", <<"No DKIM records found">>)
\*   'ok - created selector s1'         Status("ok-created", <<"s1">>)
\*   'ok - updated selector s1'         Status("ok-updated-selector", <<"s1">>)
Status(kind, detail) == [kind |-> kind, detail |-> detail]
Unset == Status("", <<>>)
NotAutoDns == <<"not using AutoDNS nameservers">>

\* The reconciler checkDomain is inside of: which one, for which DKIM
\* selector, and whether the selector is created (not found) or updated.
NoUpdate == [kind |-> "none", selector |-> "", create |-> FALSE]

NoLocals ==
  [spfNeedsUpdate |-> FALSE, spfCurrentValue |-> Null,
   dmarcNeedsUpdate |-> FALSE, dmarcCurrentValue |-> Null,
   dkimResults |-> <<>>, i |-> 0, upd |-> NoUpdate]

NoResult == [spfStatus |-> Unset, dmarcStatus |-> Unset, dkimStatus |-> Unset]

\* No repetition: the run is not compared with another one.
NoPair == [phase |-> "off", trace |-> <<>>, result |-> NoResult]

\* processDomains is not running; no SPF record is being flattened.
NoBatch ==
  [at |-> "idle", data |-> <<>>, testDomains |-> {}, domains |-> <<>>, k |-> 0,
   stage |-> 0, result |-> "none", fileOutput |-> <<>>, log |-> <<>>]

\* The lists resolveSpfIncludes returns, empty.
NoResolved == [mechanisms |-> <<>>, modifiers |-> <<>>]

\* normalizeDMARC is not being compared; addHealthChecks is not running.
NoNorm ==
  [at |-> "idle", dmarc |-> <<>>, other |-> <<>>, normalizedCurrent |-> <<>>,
   normalizedExpected |-> <<>>, equal |-> FALSE]
NoHealth ==
  [at |-> "idle", lookups |-> <<>>, raised |-> FALSE, healthSummary |-> <<>>]

\* main() is not running.
NoMain == [at |-> "idle", entered |-> FALSE, failed |-> FALSE, shutdowns |-> 0]

NoFlat ==
  [at |-> "idle", pass |-> 0, txt |-> "", hosts |-> "", given |-> <<>>,
   base |-> <<>>, stack |-> <<>>, visited |-> {}, queried |-> <<>>,
   skipped |-> <<>>, cut |-> <<>>, resolved |-> NoResolved, flattenedSpf |-> <<>>,
   previous |-> <<>>]

\* No run: the state of the run variables where no domain is processed.
CheckIdle ==
  /\ dns = [d \in Domains |-> [l \in Lookups |-> {}]]
  /\ dkimLoaded = [d \in Domains |-> NoEntry]
  /\ dkimConfig = [d \in Domains |-> <<>>]
  /\ domain = ""
  /\ pc = "idle"
  /\ loc = NoLocals
  /\ result = NoResult
  /\ trace = <<>>
  /\ first = NoPair

RunIdle ==
  /\ CheckIdle
  /\ batch = NoBatch
  /\ flat = NoFlat
  /\ norm = NoNorm
  /\ health = NoHealth
  /\ main = NoMain

\* What a step of checkDomain leaves alone besides the variables it names.
RunFrame ==
  UNCHANGED <<limiterVars, historyVars, dryRun, faults, zones, dns,
              dkimLoaded, dkimConfig, domain, first, batch, flat, norm,
              health, main>>

\* The history of a run that is to be compared with its repetition: an API
\* call of the run, [by, selector, op, zone, data], is appended to trace.
NoData == [origin |-> ""]

Logged(by, selector, op, zone, data) ==
  trace' = IF first.phase = "off" THEN trace
           ELSE Append(trace, [by |-> by, selector |-> selector, op |-> op,
                               zone |-> zone, data |-> data])

\* const usesAutoDNS = await usesAutoDNSNameservers(domainName); if not, the
\* three statuses are 'skipped - ...' and the updates are left out.
CheckNameservers ==
  /\ pc = "start"
  /\ \E answer \in dns[domain]["ns"] :
       IF usesAutoDNSNameservers(answer)
         THEN /\ pc' = "spf"
              /\ UNCHANGED result
         ELSE /\ pc' = "records"
              /\ result' = [result EXCEPT
                   !.spfStatus = Status("skipped", NotAutoDns),
                   !.dmarcStatus = Status("skipped", NotAutoDns),
                   !.dkimStatus = Status("skipped", NotAutoDns)]
  /\ UNCHANGED <<loc, api, trace>>
  /\ RunFrame

\* Mutant of raceSPF: an answer that comes too late counts as no record.
raceSPF_LateIsAbsent(answer) ==
  IF answer.code = "LATE" THEN Value(Null)
  ELSE getSPFRecord(answer)

\* Promise.race([getSPFRecord(domainName), <5 s timer>])
raceSPF(answer) ==
  IF answer.code = "LATE" THEN Throws(Err("SPF query timeout", 0))
  ELSE getSPFRecord(answer)

\* The SPF check: spfStatus, spfNeedsUpdate and spfCurrentValue.
CheckSPF ==
  /\ pc = "spf"
  /\ \E answer \in dns[domain]["spf"] :
       LET r == raceSPF(answer)
           currentSpf == r.value
       IN IF ~r.ok
            THEN /\ result' = [result EXCEPT !.spfStatus = Status("error", <<>>)]
                 /\ loc' = [loc EXCEPT !.spfCurrentValue = <<Message(r.err)>>]
          ELSE IF currentSpf = ExpectedSpf
            THEN /\ result' = [result EXCEPT !.spfStatus = Status("ok", <<>>)]
                 /\ UNCHANGED loc
          ELSE /\ result' = [result EXCEPT
                    !.spfStatus = Status("needs-update", <<>>)]
               /\ loc' = [loc EXCEPT
                    !.spfNeedsUpdate = TRUE,
                    !.spfCurrentValue = IF currentSpf # Null THEN currentSpf
                                        ELSE <<"No SPF record">>]
  /\ pc' = "dmarc"
  /\ UNCHANGED <<api, trace>>
  /\ RunFrame

\* The DMARC check: dmarcStatus, dmarcNeedsUpdate and dmarcCurrentValue.
CheckDMARC ==
  /\ pc = "dmarc"
  /\ \E answer \in dns[domain]["dmarc"] :
       LET r == getDMARCRecord(answer)
           currentDmarc == r.value
       IN IF ~r.ok
            THEN /\ result' = [result EXCEPT
                      !.dmarcStatus = Status("error", <<>>)]
                 /\ loc' = [loc EXCEPT !.dmarcCurrentValue = <<Message(r.err)>>]
          ELSE IF normalizeDMARC(currentDmarc) = normalizeDMARC(ExpectedDmarc)
            THEN /\ result' = [result EXCEPT !.dmarcStatus = Status("ok", <<>>)]
                 /\ UNCHANGED loc
          ELSE /\ result' = [result EXCEPT
                    !.dmarcStatus = Status("needs-update", <<>>)]
               /\ loc' = [loc EXCEPT
                    !.dmarcNeedsUpdate = TRUE,
                    !.dmarcCurrentValue = IF currentDmarc # Null
                                            THEN currentDmarc
                                            ELSE <<"No DMARC record">>]
  /\ pc' = "dkim"
  /\ UNCHANGED <<api, trace>>
  /\ RunFrame

\* !desiredValue || desiredValue.trim() === ''
IsBlank(value) == Len(Trim(value)) = 0

\* The statuses checkDKIMForDomain sets from dkimResults.
DkimFoundStatus(dkimResults) ==
  IF Len(dkimResults) > 0
    THEN Status("ok-selectors",
                [k \in DOMAIN dkimResults |-> dkimResults[k].selector])
    ELSE Status("fail", <<"No DKIM records found">>)

\* Entry of checkDKIMForDomain: without a non-empty desired value the status
\* is 'skipped'; otherwise checkDKIMRecords starts.
CheckDKIM ==
  /\ pc = "dkim"
  /\ LET desired == dkimConfig[domain]
         hasNonEmptyValues ==
           \E k \in DOMAIN desired : ~IsBlank(desired[k].value)
     IN IF Len(desired) = 0 \/ ~hasNonEmptyValues
          THEN /\ result' = [result EXCEPT !.dkimStatus = Status("skipped", <<>>)]
               /\ pc' = "spfUpdate"
               /\ UNCHANGED loc
          ELSE /\ pc' = "dkimDns"
               /\ loc' = [loc EXCEPT !.i = 1, !.dkimResults = <<>>]
               /\ UNCHANGED result
  /\ UNCHANGED <<api, trace>>
  /\ RunFrame

\* Mutant of needsZoneListing: the zone is listed whatever DNS gave.
needsZoneListing_Always(dkimResults) == TRUE

\* if (dkimResults.length === 0), after checkDKIMRecords
needsZoneListing(dkimResults) == Len(dkimResults) = 0

\* One pass of the loop of checkDKIMRecords.  After the last selector:
\* with no result, listZoneDKIMRecords calls getZone; otherwise the status is
\* set and the loop over the desired selectors starts.
CheckDKIMSelector ==
  /\ pc = "dkimDns"
  /\ \E answer \in dns[domain][dkimSelectors[loc.i]] :
       LET dkimResults ==
             loc.dkimResults \o checkDKIMSelector(dkimSelectors[loc.i], answer)
       IN IF loc.i < Len(dkimSelectors)
            THEN /\ loc' = [loc EXCEPT !.i = @ + 1,
                                       !.dkimResults = dkimResults]
                 /\ UNCHANGED <<pc, api, result, trace>>
          ELSE IF needsZoneListing(dkimResults)
            THEN /\ api' = BeginCall("getZone", domain, <<>>, dryRun)
                 /\ Logged("list", "", "getZone", domain, NoData)
                 /\ pc' = "dkimList"
                 /\ loc' = [loc EXCEPT !.dkimResults = dkimResults]
                 /\ UNCHANGED result
          ELSE /\ result' = [result EXCEPT
                    !.dkimStatus = DkimFoundStatus(dkimResults)]
               /\ loc' = [loc EXCEPT !.i = 1, !.dkimResults = dkimResults]
               /\ pc' = "dkimEnsure"
               /\ UNCHANGED <<api, trace>>
  /\ RunFrame

\* listZoneDKIMRecords has its zone (or its error): its entries replace
\* dkimResults when there are any, and the status is set.
ListZoneDKIM ==
  /\ pc = "dkimList"
  /\ api.phase = "done"
  /\ LET zoneDkim == listZoneDKIMRecords(api.result)
         dkimResults == IF Len(zoneDkim) > 0 THEN zoneDkim
                        ELSE loc.dkimResults
     IN /\ result' = [result EXCEPT
             !.dkimStatus = DkimFoundStatus(dkimResults)]
        /\ loc' = [loc EXCEPT !.i = 1, !.dkimResults = dkimResults]
  /\ pc' = "dkimEnsure"
  /\ api' = IdleCall
  /\ UNCHANGED trace
  /\ RunFrame

\* A reconciler starts: its getZone call.
UpdateZoneName(kind) ==
  IF kind = "auth" THEN dmarcReportAuthDomain ELSE domain

StartUpdate(kind, selector, create) ==
  /\ api' = BeginCall("getZone", UpdateZoneName(kind), <<>>, dryRun)
  /\ Logged(kind, selector, "getZone", UpdateZoneName(kind), NoData)
  /\ loc' = [loc EXCEPT !.upd = [kind |-> kind, selector |-> selector,
                                 create |-> create]]
  /\ pc' = "updRead"

\* One pass of the loop over Object.entries(desiredFromConfig): an empty
\* value is passed over; a selector that was not found, or was found with
\* another value, is written by updateDomainDKIMRecord.
EnsureSelector ==
  /\ pc = "dkimEnsure"
  /\ LET desired == dkimConfig[domain]
     IN IF loc.i > Len(desired)
          THEN /\ pc' = "spfUpdate"
               /\ loc' = [loc EXCEPT !.i = 0]
               /\ UNCHANGED <<api, result, trace>>
          ELSE LET selector == desired[loc.i].selector
                   desiredValue == desired[loc.i].value
                   found == FirstTrue([k \in DOMAIN loc.dkimResults |->
                              loc.dkimResults[k].selector = selector])
               IN IF IsBlank(desiredValue)
                    THEN /\ loc' = [loc EXCEPT !.i = @ + 1]
                         /\ UNCHANGED <<pc, api, result, trace>>
                  ELSE IF found = 0
                    THEN /\ StartUpdate("dkim", selector, TRUE)
                         /\ UNCHANGED result
                  ELSE IF normalize(loc.dkimResults[found].fullValue)
                            # normalize(desiredValue)
                    THEN /\ StartUpdate("dkim", selector, FALSE)
                         /\ UNCHANGED result
                  ELSE /\ loc' = [loc EXCEPT !.i = @ + 1]
                       /\ UNCHANGED <<pc, api, result, trace>>
  /\ RunFrame

\* if (spfNeedsUpdate) updateDomainSPFRecord(...) else if (spfStatus ===
\* 'error') spfStatus = `error "${spfCurrentValue}"`
UpdateSPF ==
  /\ pc = "spfUpdate"
  /\ IF loc.spfNeedsUpdate
       THEN /\ StartUpdate("spf", "", FALSE)
            /\ UNCHANGED result
       ELSE /\ result' = IF result.spfStatus = Status("error", <<>>)
                           THEN [result EXCEPT
                                   !.spfStatus = Status("error",
                                                        loc.spfCurrentValue)]
                           ELSE result
            /\ pc' = "dmarcUpdate"
            /\ UNCHANGED <<api, loc, trace>>
  /\ RunFrame

\* Mutant of UpdateDMARC: the DMARC update is left out when the SPF update
\* has failed.
UpdateDMARC_NotAfterSpfError ==
  /\ pc = "dmarcUpdate"
  /\ IF loc.dmarcNeedsUpdate /\ result.spfStatus.kind # "error"
       THEN /\ StartUpdate("auth", "", FALSE)
            /\ UNCHANGED result
       ELSE /\ result' = IF result.dmarcStatus = Status("error", <<>>)
                           THEN [result EXCEPT
                                   !.dmarcStatus = Status("error",
                                                          loc.dmarcCurrentValue)]
                           ELSE result
            /\ pc' = "records"
            /\ UNCHANGED <<api, loc, trace>>
  /\ RunFrame

\* if (dmarcNeedsUpdate) { addDMARCReportAuthRecord(...);
\* updateDomainDMARCRecord(...) } else if (dmarcStatus === 'error') ...
UpdateDMARC ==
  /\ pc = "dmarcUpdate"
  /\ IF loc.dmarcNeedsUpdate
       THEN /\ StartUpdate("auth", "", FALSE)
            /\ UNCHANGED result
       ELSE /\ result' = IF result.dmarcStatus = Status("error", <<>>)
                           THEN [result EXCEPT
                                   !.dmarcStatus = Status("error",
                                                          loc.dmarcCurrentValue)]
                           ELSE result
            /\ pc' = "records"
            /\ UNCHANGED <<api, loc, trace>>
  /\ RunFrame

\* A reconciler ends, having returned normally (ok) or thrown err, and
\* checkDomain goes on, the settled call being dropped:
\*   spf   - 'ok - updated from ...' unless updateDomainSPFRecord threw;
\*   auth  - addDMARCReportAuthRecord's boolean is dropped and
\*           updateDomainDMARCRecord starts;
\*   dmarc - updateDomainDMARCRecord's boolean is dropped: 'ok - updated from';
\*   dkim  - the status follows updateDomainDKIMRecord's boolean.
FinishUpdate(ok, err) ==
  LET kind == loc.upd.kind
      selector == loc.upd.selector
  IN CASE kind = "spf" ->
            /\ result' = [result EXCEPT !.spfStatus =
                 IF ok THEN Status("ok-updated", loc.spfCurrentValue)
                 ELSE Status("error", <<"Update failed: " \o Message(err)>>)]
            /\ loc' = [loc EXCEPT !.upd = NoUpdate]
            /\ pc' = "dmarcUpdate"
            /\ api' = IdleCall
            /\ UNCHANGED trace
       [] kind = "auth" ->
            /\ StartUpdate("dmarc", "", FALSE)
            /\ UNCHANGED result
       [] kind = "dmarc" ->
            /\ result' = [result EXCEPT !.dmarcStatus =
                 Status("ok-updated", loc.dmarcCurrentValue)]
            /\ loc' = [loc EXCEPT !.upd = NoUpdate]
            /\ pc' = "records"
            /\ api' = IdleCall
            /\ UNCHANGED trace
       [] OTHER ->
            /\ result' = [result EXCEPT !.dkimStatus =
                 IF ok
                   THEN Status(IF loc.upd.create THEN "ok-created"
                               ELSE "ok-updated-selector", <<selector>>)
                   ELSE Status("error",
                          <<(IF loc.upd.create
                               THEN "Failed to create selector "
                               ELSE "Failed to update selector ") \o selector>>)]
            /\ loc' = [loc EXCEPT !.upd = NoUpdate, !.i = @ + 1]
            /\ pc' = "dkimEnsure"
            /\ api' = IdleCall
            /\ UNCHANGED trace

\* The edit a reconciler makes to the zone it has read.
EditOf(kind, zoneInfo) ==
  CASE kind = "spf" -> updateDomainSPFRecord(zoneInfo, ExpectedSpf)
    [] kind = "auth" -> addDMARCReportAuthRecord(zoneInfo, domain)
    [] kind = "dmarc" -> updateDomainDMARCRecord(zoneInfo, ExpectedDmarc)
    [] OTHER -> updateDomainDKIMRecord(zoneInfo, loc.upd.selector,
                                       dkimConfig[domain][loc.i].value)

\* The getZone call of a reconciler has ended: the reconciler throws with
\* it, or validates and edits the zone and calls updateZone, or (the
\* reporting authorization being there already) ends without a write.
ZoneRead ==
  /\ pc = "updRead"
  /\ api.phase = "done"
  /\ LET edit == IF api.result.kind = "throw"
                   THEN EditFailed(api.result.err)
                   ELSE EditOf(loc.upd.kind, api.result.body)
     IN IF edit.ok /\ edit.write
          THEN /\ api' = BeginCall("updateZone", UpdateZoneName(loc.upd.kind),
                                   edit.zone, dryRun)
               /\ Logged(loc.upd.kind, loc.upd.selector, "updateZone",
                         UpdateZoneName(loc.upd.kind), edit.zone)
               /\ pc' = "updWrite"
               /\ UNCHANGED <<loc, result>>
          ELSE FinishUpdate(edit.ok, edit.err)
  /\ RunFrame

\* The updateZone call of a reconciler has ended: the reconciler returns
\* what updateZone returned, or throws what it threw.
ZoneWritten ==
  /\ pc = "updWrite"
  /\ api.phase = "done"
  /\ IF api.result.kind = "throw"
       THEN FinishUpdate(FALSE, api.result.err)
       ELSE FinishUpdate(TRUE, Err("", 0))
  /\ RunFrame

\* getRecordsForDomain: its getZone call; the A/AAAA/MX displays it derives
\* are not part of the state.
GetRecords ==
  /\ pc = "records"
  /\ api' = BeginCall("getZone", domain, <<>>, dryRun)
  /\ Logged("records", "", "getZone", domain, NoData)
  /\ pc' = "recordsRead"
  /\ UNCHANGED <<loc, result>>
  /\ RunFrame

\* The call has ended; addHealthChecks follows (the health summary is not
\* part of the state either) and checkDomain returns.
RecordsRead ==
  /\ pc = "recordsRead"
  /\ api.phase = "done"
  /\ pc' = "done"
  /\ api' = IdleCall
  /\ UNCHANGED <<loc, result, trace>>
  /\ RunFrame

\* ------------------------------------------------------------------------
\* Spec: the limiter under arbitrary callers
\* ------------------------------------------------------------------------

Init ==
  /\ autodnsRate = InitialRate
  /\ refillTimer = TRUE
  /\ clock = 0
  /\ ticks = 0
  /\ callLog = <<>>
  /\ granted = <<>>
  /\ dryRun = FALSE
  /\ zones = NoZones
  /\ api = IdleCall
  /\ faults = {}
  /\ RunIdle

\* A refill tick is due: the k-th tick fires at clock = k * Slots.
TickDue ==
  /\ refillTimer
  /\ clock > 0
  /\ clock % Slots = 0
  /\ ticks < clock \div Slots

Grant(id, tick, via) == [id |-> id, tick |-> tick, at |-> clock, via |-> via]

\* Some caller calls rateLimitAutoDNS().
Call ==
  /\ Len(callLog) < MaxCalls
  /\ ~TickDue
  /\ LET id == Len(callLog) + 1
         r == rateLimitAutoDNS(autodnsRate, id)
     IN /\ autodnsRate' = r.rate
        /\ callLog' = Append(callLog, [tick |-> ticks, at |-> clock])
        /\ granted' = IF r.resolved
                        THEN Append(granted, Grant(id, ticks, "immediate"))
                        ELSE granted
  /\ UNCHANGED <<refillTimer, clock, ticks, apiVars, runVars>>

\* The interval timer fires.
Tick ==
  /\ TickDue
  /\ LET r == RefillCallback(autodnsRate)
     IN /\ autodnsRate' = r.rate
        /\ granted' = granted \o
             [i \in 1..Len(r.processed) |->
                Grant(r.processed[i], ticks + 1, "tick")]
  /\ ticks' = ticks + 1
  /\ UNCHANGED <<refillTimer, clock, callLog, apiVars, runVars>>

\* Time passes; a due tick fires before time moves on.
Advance ==
  /\ ~TickDue
  /\ (clock + 1) \div Slots <= MaxTicks
  /\ clock' = clock + 1
  /\ UNCHANGED <<autodnsRate, refillTimer, ticks, callLog, granted, apiVars, runVars>>

\* Mutant of shutdownAutoDNSRateLimiter: the callers that wait are let go.
shutdownAutoDNSRateLimiter_Releases ==
  /\ refillTimer
  /\ refillTimer' = FALSE
  /\ autodnsRate' = [autodnsRate EXCEPT !.queue = <<>>]
  /\ granted' = granted \o
       [i \in 1..Len(autodnsRate.queue) |->
          [id |-> autodnsRate.queue[i], tick |-> ticks, at |-> clock,
           via |-> "shutdown"]]
  /\ UNCHANGED <<clock, ticks, callLog, apiVars, runVars>>

\* shutdownAutoDNSRateLimiter(): clearInterval and refillTimer = null, once.
shutdownAutoDNSRateLimiter ==
  /\ refillTimer
  /\ refillTimer' = FALSE
  /\ UNCHANGED <<autodnsRate, clock, ticks, callLog, granted, apiVars, runVars>>

Next ==
  \/ Call
  \/ Tick
  \/ Advance
  \/ shutdownAutoDNSRateLimiter

Spec == Init /\ [][Next]_vars

\* The interval timer fires when it is due, and time goes on.
SpecFair == Spec /\ WF_vars(Tick) /\ WF_vars(Advance)

\* ------------------------------------------------------------------------
\* SpecApi: a client making API calls one after the other
\* ------------------------------------------------------------------------

\* The zone names and zone data the client of SpecApi passes.
ClientNames == {"kunde.de", " Kunde.DE ", "-kunde.de", "weg.de"}
ClientZoneData == {ZoneObj("kunde.de", <<>>), ZoneObj("kunde.de", <<RecA>>)}

ApiInit ==
  /\ autodnsRate = InitialRate
  /\ refillTimer = TRUE
  /\ clock = 0
  /\ ticks = 0
  /\ callLog = <<>>
  /\ granted = <<>>
  /\ dryRun \in BOOLEAN
  /\ zones = [NoZones EXCEPT
                !["kunde.de"] = [state |-> "ok",
                                 obj |-> ZoneObj("kunde.de", <<RecA>>)]]
  /\ api = IdleCall
  /\ faults = HttpErrors \cup {StatusError}
  /\ RunIdle

\* The client calls queryDomains(), getZone(name) or updateZone(name, data)
\* once its previous call has ended.
ClientCall ==
  /\ api.phase \in {"idle", "done"}
  /\ \/ api' = BeginCall("queryDomains", "", <<>>, dryRun)
     \/ \E name \in ClientNames :
          api' = BeginCall("getZone", name, <<>>, dryRun)
     \/ \E name \in ClientNames : \E data \in ClientZoneData :
          api' = BeginCall("updateZone", name, data, dryRun)
  /\ UNCHANGED <<autodnsRate, refillTimer, zones, dryRun, faults, historyVars,
               runVars>>

ApiNext ==
  \/ ClientCall
  \/ ApiAcquire
  \/ ApiTick
  \/ ApiRequest

SpecApi == ApiInit /\ [][ApiNext]_vars

\* ------------------------------------------------------------------------
\* SpecRun: checkDomain on one domain, against a zone API that can fail
\* ------------------------------------------------------------------------

TxtRec(name, value) == Rec(name, "TXT", value, 3600)

\* A zone object without the resourceRecords field.
BareZoneObj(origin) ==
  [origin |-> origin, soa |-> "soa", created |-> "2020-01-01",
   updated |-> "2024-01-01", owner |-> "owner", updater |-> "updater",
   roid |-> "roid"]

Zone(obj) == [state |-> "ok", obj |-> obj]

\* Zones at the start of a run: nothing but an address record; older SPF,
\* DMARC and DKIM records among others; a CNAME at the apex; no record list;
\* a zone answered with empty data.
PlainZone(d) == Zone(ZoneObj(d, <<RecA>>))
OlderZone(d) ==
  Zone(ZoneObj(d, <<RecA, TxtRec("", Verification), TxtRec("@", OldSpf),
                    TxtRec("_dmarc", OldDmarc),
                    TxtRec("s1._domainkey", DkimOldKey)>>))
CnameZone(d) ==
  Zone(ZoneObj(d, <<Rec("", "CNAME", <<"host.example.net">>, 3600),
                    TxtRec("_dmarc", OldDmarc)>>))
BareZone(d) == Zone(BareZoneObj(d))
EmptyZone == [state |-> "empty", obj |-> <<>>]

\* The zone of the reporting-authorization domain with the authorization
\* record of domain d.
AuthorizedZone(d) ==
  Zone(ZoneObj(dmarcReportAuthDomain,
               <<RecA, TxtRec(ReportRecordName(d), <<"v=DMARC1">>)>>))

\* The same with an authorization record of another value.
OtherAuthorizedZone(d) ==
  Zone(ZoneObj(dmarcReportAuthDomain,
               <<RecA, TxtRec(ReportRecordName(d), OldDmarc)>>))

\* The zones a run on domain d starts with: <<the zone of d, the zone of the
\* reporting-authorization domain>>, the same zone when d is that domain.
RunZonePairs(d) ==
  IF d = dmarcReportAuthDomain
    THEN {<<PlainZone(d), PlainZone(d)>>, <<OlderZone(d), OlderZone(d)>>}
  ELSE IF d \notin ZoneNames
    THEN {<<EmptyZone, PlainZone(dmarcReportAuthDomain)>>}
    ELSE {<<PlainZone(d), PlainZone(dmarcReportAuthDomain)>>,
          <<OlderZone(d), AuthorizedZone(d)>>,
          <<CnameZone(d), PlainZone(dmarcReportAuthDomain)>>,
          <<BareZone(d), OtherAuthorizedZone(d)>>,
          <<EmptyZone, PlainZone(dmarcReportAuthDomain)>>}

\* The failures of the zone API in a run: an error that is not retried and
\* the HTTP 200 answer of status type ERROR.
RunFaults == {Err("ERR_BAD_REQUEST", 400), StatusError}

RunZones(d, z, a) ==
  [n \in ZoneNames |->
     IF n = d THEN z
     ELSE IF n = dmarcReportAuthDomain THEN a
     ELSE [state |-> "missing", obj |-> <<>>]]

RunInit ==
  /\ autodnsRate = InitialRate
  /\ refillTimer = TRUE
  /\ clock = 0
  /\ ticks = 0
  /\ callLog = <<>>
  /\ granted = <<>>
  /\ dryRun \in BOOLEAN
  /\ domain \in Domains
  /\ \E p \in RunZonePairs(domain) : zones = RunZones(domain, p[1], p[2])
  /\ api = IdleCall
  /\ faults = RunFaults
  /\ dns = [d \in Domains |-> [l \in Lookups |-> DnsAnswers(l)]]
  /\ \E e \in LoadedEntries :
       dkimLoaded = [d \in Domains |-> IF d = domain THEN e ELSE NoEntry]
  /\ dkimConfig = [d \in Domains |-> ensureEntry(dkimLoaded[d])]
  /\ pc = "start"
  /\ loc = NoLocals
  /\ result = NoResult
  /\ trace = <<>>
  /\ first = NoPair
  /\ batch = NoBatch
  /\ flat = NoFlat
  /\ norm = NoNorm
  /\ health = NoHealth
  /\ main = NoMain

\* The refill timer fires while an attempt of the run waits for a token.
RunTick ==
  /\ api.phase = "queued"
  /\ ApiTick

RunNext ==
  \/ CheckNameservers
  \/ CheckSPF
  \/ CheckDMARC
  \/ CheckDKIM
  \/ CheckDKIMSelector
  \/ ListZoneDKIM
  \/ EnsureSelector
  \/ UpdateSPF
  \/ UpdateDMARC
  \/ ZoneRead
  \/ ZoneWritten
  \/ GetRecords
  \/ RecordsRead
  \/ ApiAcquire
  \/ RunTick
  \/ ApiRequest

SpecRun == RunInit /\ [][RunNext]_vars

\* ------------------------------------------------------------------------
\* SpecPair: a dry run, then a real run from the same DNS answers and zones
\* ------------------------------------------------------------------------

\* The answers of the resolver in SpecPair: the same answer whenever a
\* lookup is repeated.
PairAnswers(lookup) ==
  CASE lookup = "ns" ->
         {DnsRecords(<<"ns1.example.net", "A.NS14.NET.">>),
          DnsRecords(<<"ns1.example.net">>), DnsRecords(<<>>),
          DnsError("ESERVFAIL")}
    [] lookup = "spf" ->
         {DnsRecords(<<ExpectedSpf>>), DnsRecords(<<Verification, OldSpf>>),
          DnsError("ENODATA"), DnsError("ESERVFAIL"), DnsError("LATE")}
    [] lookup = "dmarc" ->
         {DnsRecords(<<SpacedDmarc>>), DnsRecords(<<OldDmarc>>),
          DnsError("ENODATA")}
    [] lookup = "s1" ->
         {DnsRecords(<<DkimOldKey>>), DnsError("ENODATA"),
          DnsError("ESERVFAIL")}
    [] OTHER ->
         {DnsRecords(<<Verification, DkimKey>>), DnsError("ENOTFOUND")}

\* The first run is a dry run; no request to the zone API fails.
PairInit ==
  /\ autodnsRate = InitialRate
  /\ refillTimer = TRUE
  /\ clock = 0
  /\ ticks = 0
  /\ callLog = <<>>
  /\ granted = <<>>
  /\ dryRun = TRUE
  /\ domain \in Domains
  /\ \E p \in RunZonePairs(domain) : zones = RunZones(domain, p[1], p[2])
  /\ api = IdleCall
  /\ faults = {}
  /\ \E ns \in PairAnswers("ns") : \E spf \in PairAnswers("spf") :
     \E dmarc \in PairAnswers("dmarc") :
     \E s1 \in PairAnswers("s1") : \E s2 \in PairAnswers("s2") :
       dns = [d \in Domains |->
                [l \in Lookups |->
                   CASE l = "ns" -> {ns}
                     [] l = "spf" -> {spf}
                     [] l = "dmarc" -> {dmarc}
                     [] l = "s1" -> {s1}
                     [] OTHER -> {s2}]]
  /\ \E e \in LoadedEntries :
       dkimLoaded = [d \in Domains |-> IF d = domain THEN e ELSE NoEntry]
  /\ dkimConfig = [d \in Domains |-> ensureEntry(dkimLoaded[d])]
  /\ pc = "start"
  /\ loc = NoLocals
  /\ result = NoResult
  /\ trace = <<>>
  /\ first = [NoPair EXCEPT !.phase = "first"]
  /\ batch = NoBatch
  /\ flat = NoFlat
  /\ norm = NoNorm
  /\ health = NoHealth
  /\ main = NoMain

\* The dry run has ended: its trace and result are kept and the run is
\* repeated with dry-run mode off, from the zones the dry run has left as
\* they were.
Rerun ==
  /\ pc = "done"
  /\ first.phase = "first"
  /\ first' = [phase |-> "second", trace |-> trace, result |-> result]
  /\ dryRun' = FALSE
  /\ pc' = "start"
  /\ loc' = NoLocals
  /\ result' = NoResult
  /\ trace' = <<>>
  /\ api' = IdleCall
  /\ UNCHANGED <<limiterVars, historyVars, faults, zones, dns, dkimLoaded,
                 dkimConfig, domain, batch, flat, norm,
              health, main>>

PairNext ==
  \/ RunNext
  \/ Rerun

SpecPair == PairInit /\ [][PairNext]_vars

\* ------------------------------------------------------------------------
\* SpecBatch: processDomains (domain-processor.js) over a list of domains
\* ------------------------------------------------------------------------

\* A domain name of the list is a sequence of characters; only the order and
\* the case of the characters matter here.
toLowerCase(name) ==
  [i \in DOMAIN name |->
     CASE name[i] = "A" -> "a"
       [] name[i] = "B" -> "b"
       [] OTHER -> name[i]]

\* The place of a character in the alphabet, for lower-case characters.
CharOrder(c) ==
  CASE c = "a" -> 1
    [] c = "b" -> 2
    [] c = "." -> 0
    [] OTHER -> 3

\* nameA.localeCompare(nameB): negative, zero or positive.
RECURSIVE localeCompare(_, _)
localeCompare(nameA, nameB) ==
  IF Len(nameA) = 0 /\ Len(nameB) = 0 THEN 0
  ELSE IF Len(nameA) = 0 THEN -1
  ELSE IF Len(nameB) = 0 THEN 1
  ELSE IF CharOrder(Head(nameA)) < CharOrder(Head(nameB)) THEN -1
  ELSE IF CharOrder(Head(nameA)) > CharOrder(Head(nameB)) THEN 1
  ELSE localeCompare(Tail(nameA), Tail(nameB))

\* Mutant of compareDomains: the names are compared as they are written.
compareDomains_CaseSensitive(a, b) == localeCompare(a, b)

\* The comparison of domains.sort: (a, b) => lower(a).localeCompare(lower(b))
compareDomains(a, b) == localeCompare(toLowerCase(a), toLowerCase(b))

\* domains.sort(compare): Array.prototype.sort is stable, so a name goes
\* behind the names that do not compare greater.
RECURSIVE InsertDomain(_, _)
InsertDomain(sorted, name) ==
  IF Len(sorted) = 0 THEN <<name>>
  ELSE IF compareDomains(Head(sorted), name) > 0 THEN <<name>> \o sorted
  ELSE <<Head(sorted)>> \o InsertDomain(Tail(sorted), name)

RECURSIVE sortDomains(_)
sortDomains(domains) ==
  IF Len(domains) = 0 THEN <<>>
  ELSE InsertDomain(sortDomains(SubSeq(domains, 1, Len(domains) - 1)),
                    domains[Len(domains)])

\* domains.filter(d => config.testDomains.includes(d.name || d.origin)), when
\* config.testDomainsEnabled && config.testDomains.length > 0; testDomains is
\* {} in the model when the filter is off.
RECURSIVE filterDomains(_, _)
filterDomains(domains, testDomains) ==
  IF testDomains = {} THEN domains
  ELSE IF Len(domains) = 0 THEN <<>>
  ELSE (IF Head(domains) \in testDomains THEN <<Head(domains)>> ELSE <<>>)
         \o filterDomains(Tail(domains), testDomains)

\* The domain lists data.data of the model and the test-domain filters.
DataLists ==
  {<<>>,
   <<<<"b", ".", "a">>>>,
   <<<<"b", ".", "a">>, <<"A", ".", "a">>>>,
   <<<<"B", ".", "a">>, <<"a", "b">>, <<"a">>>>,
   <<<<"b">>, <<"B", ".", "a">>, <<"A", "b">>>>,
   <<<<"a", "b">>, <<"A", ".", "b">>, <<"B">>>>}

TestDomainFilters == {{}, {<<"B", ".", "a">>, <<"a">>, <<"A", ".", "b">>}}

\* The stages of checkDomain as processDomains sees them: the checks, the
\* updates, and the records and health checks for display.
CheckStages == <<"checks", "updates", "display">>

\* An entry of the report: the block of `name`, with the statuses of the
\* result ("result"), with the statuses the top-level catch of checkDomain
\* sets ("fatal"), or with 'ERROR: processing failed' ("failed").
ReportEntry(name, kind) == [name |-> name, kind |-> kind]

BatchFrame ==
  UNCHANGED <<limiterVars, historyVars, apiVars, dns, dkimLoaded, dkimConfig,
              domain, pc, loc, result, trace, first, flat, norm,
              health, main>>

\* The head of processDomains: no domain, '' is returned; otherwise the
\* filter and the sort.
BeginBatch ==
  /\ batch.at = "load"
  /\ batch' = IF Len(batch.data) = 0
                THEN [batch EXCEPT !.at = "end"]
                ELSE [batch EXCEPT
                        !.at = "next",
                        !.domains = sortDomains(filterDomains(batch.data,
                                                  batch.testDomains))]
  /\ BatchFrame

\* for (const domain of domains): the next domain, checkDomain being called
\* inside the try; after the last one, fileOutput is returned.
NextDomain ==
  /\ batch.at = "next"
  /\ batch' = IF batch.k = Len(batch.domains)
                THEN [batch EXCEPT !.at = "end"]
                ELSE [batch EXCEPT
                        !.at = "checking",
                        !.k = @ + 1,
                        !.stage = 1,
                        !.result = "none",
                        !.log = Append(@, [k |-> batch.k + 1,
                                           step |-> "start"])]
  /\ BatchFrame

\* A stage of the awaited checkDomain: it ends, or fails with an error that
\* no inner try/catch takes, which the top-level catch of checkDomain turns
\* into a result; after the last stage checkDomain returns its result.
CheckDomainStage ==
  /\ batch.at = "checking"
  /\ \E fatal \in BOOLEAN :
       batch' = [batch EXCEPT
                   !.log = Append(@, [k |-> batch.k,
                                      step |-> CheckStages[batch.stage]]),
                   !.stage = IF fatal \/ @ = Len(CheckStages) THEN @
                             ELSE @ + 1,
                   !.result = IF fatal THEN "fatal"
                              ELSE IF batch.stage = Len(CheckStages)
                                THEN "result"
                              ELSE @,
                   !.at = IF fatal \/ batch.stage = Len(CheckStages)
                            THEN "returned" ELSE @]
  /\ BatchFrame

\* The rest of the try block: the block of the domain is appended to
\* fileOutput; when something in the try block has thrown, the catch appends
\* the 'ERROR: processing failed' block instead.  The loop goes on.
ReportDomain ==
  /\ batch.at = "returned"
  /\ \E thrown \in BOOLEAN :
       batch' = [batch EXCEPT
                   !.fileOutput =
                      Append(@, ReportEntry(batch.domains[batch.k],
                                  IF thrown THEN "failed" ELSE batch.result)),
                   !.log = Append(@, [k |-> batch.k, step |-> "report"]),
                   !.at = "next"]
  /\ BatchFrame

BatchInit ==
  /\ autodnsRate = InitialRate
  /\ refillTimer = TRUE
  /\ clock = 0
  /\ ticks = 0
  /\ callLog = <<>>
  /\ granted = <<>>
  /\ dryRun = FALSE
  /\ zones = NoZones
  /\ api = IdleCall
  /\ faults = {}
  /\ CheckIdle
  /\ flat = NoFlat
  /\ norm = NoNorm
  /\ health = NoHealth
  /\ main = NoMain
  /\ \E data \in DataLists : \E testDomains \in TestDomainFilters :
       batch = [NoBatch EXCEPT !.at = "load", !.data = data,
                               !.testDomains = testDomains]

BatchNext ==
  \/ BeginBatch
  \/ NextDomain
  \/ CheckDomainStage
  \/ ReportDomain

SpecBatch == BatchInit /\ [][BatchNext]_vars

\* ------------------------------------------------------------------------
\* SPF flattening: resolveSpfIncludes and buildFlattenedSpfRecord.
\*
\* An SPF record is a sequence of tokens as every text of this module; here
\* a term is written as a run of tokens without whitespace between them, cut
\* where the code looks into it: 'include:x.com' is "include:", "x.com";
\* '-all' is "-", "all"; 'redirect=mall.com' is "redirect=", "m", "all",
\* ".com". The letters 'all' are always a token of their own, so that
\* m.includes('all') is the membership of that token. A part is the token
\* sequence of one term; a domain or host name is the token sequence that
\* follows the prefix.

\* The recursion ceiling of resolveSpfIncludes: if (depth > 10)
MaxDepth == 10

\* spfRecord.split(/\s+/), after the parts already split off: a run of
\* whitespace separates two parts, and whitespace at the start or the end
\* of the record leaves an empty part there.
RECURSIVE splitFrom(_, _, _)
splitFrom(s, part, afterWs) ==
  IF Len(s) = 0 THEN <<part>>
  ELSE IF Head(s) \in WS
    THEN IF afterWs THEN splitFrom(Tail(s), part, TRUE)
         ELSE <<part>> \o splitFrom(Tail(s), <<>>, TRUE)
    ELSE splitFrom(Tail(s), Append(part, Head(s)), FALSE)

splitWs(s) == splitFrom(s, <<>>, FALSE)

\* parts.join(' ')
RECURSIVE joinSpace(_)
joinSpace(parts) ==
  IF Len(parts) = 0 THEN <<>>
  ELSE IF Len(parts) = 1 THEN parts[1]
  ELSE parts[1] \o <<" ">> \o joinSpace(Tail(parts))

\* [...new Set(list)]: the elements in the order of their first occurrence.
RECURSIVE uniqueFrom(_, _)
uniqueFrom(list, seen) ==
  IF Len(list) = 0 THEN <<>>
  ELSE IF Head(list) \in seen THEN uniqueFrom(Tail(list), seen)
  ELSE <<Head(list)>> \o uniqueFrom(Tail(list), seen \cup {Head(list)})

uniqueOf(list) == uniqueFrom(list, {})

\* The concatenation of a sequence of lists: ips.push(...mxIps) in a loop.
RECURSIVE concatAll(_)
concatAll(lists) ==
  IF Len(lists) = 0 THEN <<>> ELSE Head(lists) \o concatAll(Tail(lists))

\* part.startsWith('-all') || '~all' || '+all' || '?all'
startsWithQualifiedAll(part) ==
  /\ Len(part) >= 2
  /\ part[1] \in {"-", "~", "+", "?"}
  /\ part[2] = "all"

\* Only the exact word 'all' is taken as the all modifier.
partKind_ExactAllOnly(part) ==
  IF part = <<"v=spf1">> THEN "version"
  ELSE IF StartsWith(part, "include:") THEN "include"
  ELSE IF StartsWith(part, "redirect=") THEN "modifier"
  ELSE IF part = <<"all">> THEN "modifier"
  ELSE IF part = <<"a">> \/ part = <<"mx">> THEN "mechanism"
  ELSE IF StartsWith(part, "a:") THEN "a"
  ELSE IF StartsWith(part, "mx:") THEN "mx"
  ELSE "mechanism"

\* The branch of the if-chain of resolveSpfIncludes a part takes.
partKind(part) ==
  IF part = <<"v=spf1">> THEN "version"
  ELSE IF StartsWith(part, "include:") THEN "include"
  ELSE IF StartsWith(part, "redirect=") THEN "modifier"
  ELSE IF part = <<"all">> \/ startsWithQualifiedAll(part) THEN "modifier"
  ELSE IF part = <<"a">> \/ part = <<"mx">> THEN "mechanism"
  ELSE IF StartsWith(part, "a:") THEN "a"
  ELSE IF StartsWith(part, "mx:") THEN "mx"
  ELSE "mechanism"

\* m.includes('all')
includesAll(m) == \E i \in DOMAIN m : m[i] = "all"

\* The test of uniqueModifiers.filter(m => !m.includes('all'))
notAll(m) == ~includesAll(m)

\* buildFlattenedSpfRecord after the resolution: the unique mechanisms, the
\* modifiers that do not contain 'all', then the first modifier that does.
buildRecord(resolved) ==
  LET uniqueMechanisms == uniqueOf(resolved.mechanisms)
      uniqueModifiers == uniqueOf(resolved.modifiers)
      found == FirstTrue([i \in DOMAIN uniqueModifiers |->
                            includesAll(uniqueModifiers[i])])
      otherModifiers == SelectSeq(uniqueModifiers, notAll)
      allModifier == IF found = 0 THEN <<>> ELSE <<uniqueModifiers[found]>>
  IN joinSpace(<<<<"v=spf1">>>> \o uniqueMechanisms \o otherModifiers
               \o allModifier)

\* The DNS the flattening runs against. A world fixes the answer of every
\* query, so that a name asked twice is answered the same way.
TxtWorlds == {"same", "cycle", "self", "diamond", "mall", "chain", "none"}
HostWorlds == {"up", "v4", "nomail", "down"}

\* The include chain c1 -> c2 -> ... of the world "chain", longer than the
\* recursion ceiling, and the address each of its records carries.
ChainNames ==
  <<"c1", "c2", "c3", "c4", "c5", "c6", "c7", "c8", "c9", "c10", "c11",
    "c12">>
ChainAddresses ==
  <<"10.0.0.1", "10.0.0.2", "10.0.0.3", "10.0.0.4", "10.0.0.5", "10.0.0.6",
    "10.0.0.7", "10.0.0.8", "10.0.0.9", "10.0.0.10", "10.0.0.11",
    "10.0.0.12">>

ChainRecord(k) ==
  <<"v=spf1", " ", "ip4:", ChainAddresses[k]>>
  \o (IF k < Len(ChainNames)
        THEN <<" ", "include:", ChainNames[k + 1]>> ELSE <<>>)
  \o <<" ", "~", "all">>

\* resolveTxt(name) in a world
resolveTxt(world, name) ==
  CASE world = "same" /\ name \in {<<"x.com">>, <<"y.com">>} ->
         DnsRecords(<<<<"v=spf1", " ", "ip4:", "1.1.1.1", " ", "-", "all">>>>)
    [] world = "cycle" /\ name = <<"a.com">> ->
         DnsRecords(<<<<"v=spf1", " ", "ip4:", "192.0.2.1", " ", "include:",
                        "b.com", " ", "~", "all">>>>)
    [] world = "cycle" /\ name = <<"b.com">> ->
         DnsRecords(<<<<"v=spf1", " ", "include:", "a.com", " ", "ip4:",
                        "192.0.2.2", " ", "-", "all">>>>)
    [] world = "self" /\ name = <<"a.com">> ->
         DnsRecords(<<<<"site-verification=1">>,
                      <<"v=spf1", " ", "include:", "a.com", " ", "ip6:",
                        "2001:db8::1", " ", "mx", " ", "-", "all">>>>)
    [] world = "self" /\ name = <<"b.com">> -> DnsError("ENODATA")
    [] world = "diamond" /\ name = <<"a.com">> ->
         DnsRecords(<<<<"v=spf1", " ", "include:", "z.com", " ", "a:",
                        "mail.a.com", " ", "?", "all">>>>)
    [] world = "diamond" /\ name = <<"b.com">> ->
         DnsRecords(<<<<"v=spf1", " ", "include:", "z.com", " ", "mx:",
                        "a.com", " ", "redirect=", "z.com">>>>)
    [] world = "diamond" /\ name = <<"z.com">> ->
         DnsRecords(<<<<"v=spf1", " ", "ip4:", "192.0.2.9", " ", "exists:",
                        "%{i}.z.com", " ", "all">>>>)
    [] world = "mall" /\ name = <<"x.com">> ->
         DnsRecords(<<<<"v=spf1", " ", "ip4:", "1.1.1.1", " ", "redirect=",
                        "m", "all", ".com">>>>)
    [] world = "mall" /\ name = <<"y.com">> ->
         DnsRecords(<<<<"v=spf1", " ", "ip4:", "1.1.1.1", " ", "-", "all">>>>)
    [] world = "chain" /\ (\E k \in DOMAIN ChainNames :
                             name = <<ChainNames[k]>>) ->
         DnsRecords(<<ChainRecord(CHOOSE k \in DOMAIN ChainNames :
                                    name = <<ChainNames[k]>>)>>)
    [] world = "none" /\ name = <<"a.com">> ->
         DnsRecords(<<<<"site-verification=1">>>>)
    [] world = "none" /\ name = <<"b.com">> -> DnsError("ESERVFAIL")
    [] world = "none" /\ name = <<"x.com">> -> DnsError("ETIMEOUT")
    [] OTHER -> DnsError("ENOTFOUND")

\* resolve4(hostname) in a world
resolve4(world, hostname) ==
  IF world \in {"up", "v4"} /\ hostname = <<"mail.a.com">>
    THEN DnsRecords(<<"192.0.2.10", "192.0.2.11">>)
    ELSE DnsError(IF world = "down" THEN "ESERVFAIL" ELSE "ENODATA")

\* resolve6(hostname) in a world
resolve6(world, hostname) ==
  IF world = "up" /\ hostname = <<"mail.a.com">>
    THEN DnsRecords(<<"2001:db8::10">>)
    ELSE DnsError(IF world = "down" THEN "ESERVFAIL" ELSE "ENODATA")

\* resolveMx(domain) in a world: the exchanges of its MX records
resolveMx(world, name) ==
  IF world \in {"up", "v4"} /\ name = <<"a.com">>
    THEN DnsRecords(<<<<"mail.a.com">>>>)
  ELSE IF world = "nomail" /\ name = <<"a.com">>
    THEN DnsRecords(<<<<"mx.nowhere.test">>>>)
    ELSE DnsError(IF world = "down" THEN "ESERVFAIL" ELSE "ENODATA")

\* resolveHostToIPs(hostname): both lookups are caught, so the function
\* returns a list (an empty one when neither lookup answers) every time.
resolveHostToIPs(world, hostname) ==
  LET ipv4 == resolve4(world, hostname)
      ipv6 == resolve6(world, hostname)
  IN Value((IF ipv4.ok
              THEN [i \in DOMAIN ipv4.records |-> <<"ip4:", ipv4.records[i]>>]
              ELSE <<>>)
           \o (IF ipv6.ok
                 THEN [i \in DOMAIN ipv6.records |->
                         <<"ip6:", ipv6.records[i]>>]
                 ELSE <<>>))

\* resolveMxToIPs(domain): the addresses of every exchange; the failure of
\* resolveMx is caught and leaves the list empty.
resolveMxToIPs(world, name) ==
  LET mxRecords == resolveMx(world, name)
  IN Value(IF mxRecords.ok
             THEN concatAll([i \in DOMAIN mxRecords.records |->
                               resolveHostToIPs(world,
                                                mxRecords.records[i]).value])
             ELSE <<>>)

\* config.mainSpfRecordValue: the records the flattening is given.
BaseRecords ==
  { <<"v=spf1", " ", "include:", "x.com", " ", "include:", "y.com", " ", "-",
      "all">>,
    <<"v=spf1", " ", "include:", "a.com", " ", "include:", "b.com", " ", "mx",
      " ", "-", "all">>,
    <<"v=spf1", " ", "include:", "c1", " ", "ip4:", "9.9.9.9", " ", "-",
      "all">>,
    <<"v=spf1", " ", "a", " ", "mx", " ", "ip4:", "9.9.9.9", " ", "exists:",
      "%{i}.z.com", " ", "ip6:", "2001:db8::9", " ", "-", "all">>,
    <<"v=spf1", " ", "a:", "mail.a.com", " ", "mx:", "a.com", " ", "ip4:",
      "9.9.9.9", " ", "~", "all">>,
    <<"v=spf1", " ", "ip4:", "9.9.9.9", " ", "redirect=", "m", "all", ".com",
      " ", "-", "all">> }

\* One call of resolveSpfIncludes(spfRecord, visited, depth) in progress:
\* the parts of its record, the index of the part the loop is at, and its
\* two lists.
Frame(spfRecord, depth) ==
  [parts |-> splitWs(spfRecord), i |-> 1, mechanisms |-> <<>>,
   modifiers |-> <<>>, depth |-> depth]

\* The ceiling is never applied.
tooDeep_Never(depth) == FALSE

\* if (depth > 10)
tooDeep(depth) == depth > MaxDepth

\* The set forgets what is added to it.
markVisited_Forgets(visited, includeDomain) == visited

\* visited.add(includeDomain)
markVisited(visited, includeDomain) == visited \cup {includeDomain}

\* The loop stays at the part it has handled.
nextPart_Stays(frame) == frame

\* The for loop of resolveSpfIncludes moves to the next part.
nextPart(frame) == [frame EXCEPT !.i = @ + 1]

TopFrame == flat.stack[Len(flat.stack)]
CurrentPart == TopFrame.parts[TopFrame.i]
InLoop ==
  /\ flat.at = "resolve"
  /\ Len(flat.stack) > 0
  /\ TopFrame.i <= Len(TopFrame.parts)

\* The stack with its top frame replaced.
WithTop(frame) == [flat.stack EXCEPT ![Len(flat.stack)] = frame]

FlatFrame ==
  UNCHANGED <<limiterVars, historyVars, apiVars, dns, dkimLoaded, dkimConfig,
              domain, pc, loc, result, trace, first, batch, norm,
              health, main>>

\* buildFlattenedSpfRecord(baseSpfRecord) calls
\* resolveSpfIncludes(baseSpfRecord) with a new visited set at depth 0.
BuildStart ==
  /\ flat.at = "start"
  /\ flat' = IF tooDeep(0)
               THEN [flat EXCEPT !.at = "build", !.visited = {},
                                 !.resolved = NoResolved]
               ELSE [flat EXCEPT !.at = "resolve", !.visited = {},
                                 !.stack = <<Frame(flat.base, 0)>>]
  /\ FlatFrame

\* One turn of the loop for a part that is not an include.
ResolvePart ==
  /\ InLoop
  /\ partKind(CurrentPart) # "include"
  /\ LET part == CurrentPart
         kind == partKind(part)
         top == TopFrame
         ips == IF kind = "a" THEN resolveHostToIPs(flat.hosts, Tail(part))
                ELSE resolveMxToIPs(flat.hosts, Tail(part))
         pushed == IF ips.ok THEN ips.value ELSE <<part>>
         after ==
           CASE kind = "version" -> top
             [] kind = "modifier" ->
                  [top EXCEPT !.modifiers = Append(@, part)]
             [] kind = "mechanism" ->
                  [top EXCEPT !.mechanisms = Append(@, part)]
             [] kind \in {"a", "mx"} ->
                  [top EXCEPT !.mechanisms = @ \o pushed]
     IN flat' = [flat EXCEPT !.stack = WithTop(nextPart(after))]
  /\ FlatFrame

\* An include of a domain that is in the visited set: continue.
SkipVisited ==
  /\ InLoop
  /\ partKind(CurrentPart) = "include"
  /\ Tail(CurrentPart) \in flat.visited
  /\ flat' = [flat EXCEPT !.stack = WithTop(nextPart(TopFrame)),
                          !.skipped = Append(@, Tail(CurrentPart))]
  /\ FlatFrame

\* An include of a new domain: it is added to the visited set and its SPF
\* record is looked up; a record that is found is resolved one level
\* deeper, which returns empty lists at once above the ceiling; an absent
\* record and a failed lookup are logged and the loop goes on.
LookupInclude ==
  /\ InLoop
  /\ partKind(CurrentPart) = "include"
  /\ Tail(CurrentPart) \notin flat.visited
  /\ LET includeDomain == Tail(CurrentPart)
         includeSpf == getSPFRecord(resolveTxt(flat.txt, includeDomain))
         depth == TopFrame.depth + 1
         seen == [flat EXCEPT
                    !.visited = markVisited(@, includeDomain),
                    !.queried = Append(@, includeDomain)]
     IN flat' =
          IF includeSpf.ok /\ includeSpf.value # Null
            THEN IF tooDeep(depth)
              THEN [seen EXCEPT !.stack = WithTop(nextPart(TopFrame)),
                                !.cut = Append(@, includeDomain)]
              ELSE [seen EXCEPT
                      !.stack = Append(@, Frame(includeSpf.value, depth))]
            ELSE [seen EXCEPT !.stack = WithTop(nextPart(TopFrame))]
  /\ FlatFrame

\* return { mechanisms, modifiers }: the caller pushes both lists onto its
\* own and goes on with its next part; the outermost call hands them to
\* buildFlattenedSpfRecord.
ReturnResolved ==
  /\ flat.at = "resolve"
  /\ Len(flat.stack) > 0
  /\ TopFrame.i > Len(TopFrame.parts)
  /\ LET returned == TopFrame
         n == Len(flat.stack)
     IN flat' =
          IF n = 1
            THEN [flat EXCEPT
                    !.at = "build", !.stack = <<>>,
                    !.resolved = [mechanisms |-> returned.mechanisms,
                                  modifiers |-> returned.modifiers]]
            ELSE LET caller == flat.stack[n - 1]
                     merged ==
                       [caller EXCEPT
                          !.mechanisms = @ \o returned.mechanisms,
                          !.modifiers = @ \o returned.modifiers]
                 IN [flat EXCEPT
                       !.stack = Append(SubSeq(flat.stack, 1, n - 2),
                                        nextPart(merged))]
  /\ FlatFrame

\* The record is put together and returned.
BuildRecord ==
  /\ flat.at = "build"
  /\ flat' = [flat EXCEPT !.at = "done",
                          !.flattenedSpf = buildRecord(flat.resolved)]
  /\ FlatFrame

\* buildFlattenedSpfRecord is called with the record it has returned.
FlattenAgain ==
  /\ flat.at = "done"
  /\ flat.pass = 1
  /\ flat' = [flat EXCEPT !.at = "start", !.pass = 2,
                          !.base = flat.flattenedSpf,
                          !.previous = flat.flattenedSpf,
                          !.queried = <<>>, !.skipped = <<>>, !.cut = <<>>]
  /\ FlatFrame

FlatInit ==
  /\ autodnsRate = InitialRate
  /\ refillTimer = TRUE
  /\ clock = 0
  /\ ticks = 0
  /\ callLog = <<>>
  /\ granted = <<>>
  /\ dryRun = FALSE
  /\ zones = NoZones
  /\ api = IdleCall
  /\ faults = {}
  /\ CheckIdle
  /\ batch = NoBatch
  /\ norm = NoNorm
  /\ health = NoHealth
  /\ main = NoMain
  /\ \E base \in BaseRecords : \E txt \in TxtWorlds : \E hosts \in HostWorlds :
       flat = [NoFlat EXCEPT !.at = "start", !.pass = 1, !.txt = txt,
                             !.hosts = hosts, !.base = base, !.given = base]

FlatNext ==
  \/ BuildStart
  \/ ResolvePart
  \/ SkipVisited
  \/ LookupInclude
  \/ ReturnResolved
  \/ BuildRecord
  \/ FlattenAgain

SpecFlatten == FlatInit /\ [][FlatNext]_vars

\* Every call that has been started is carried on: the event loop runs each
\* continuation of the one chain of awaits.
SpecFlattenFair == SpecFlatten /\ WF_vars(FlatNext)

\* ------------------------------------------------------------------------
\* normalizeDMARC on its own: the DMARC check of checkDomain applied to a
\* current record and an expected record.

\* The longest current record that is drawn.
MaxRecordLen == 4

\* The tokens the records are made of: a tag, the semicolon, blank and tab.
RecordTokens == {"p=reject", ";", " ", "\t"}

RecordsUpTo(n) == UNION {[1..k -> RecordTokens] : k \in 0..n}

\* The records that are a record with one whitespace character put in or
\* one character taken out, and the record itself.
OneEditFrom(record) ==
  {record}
  \cup {SubSeq(record, 1, k) \o <<ws>> \o SubSeq(record, k + 1, Len(record)) :
          k \in 0..Len(record), ws \in WS}
  \cup {SubSeq(record, 1, k - 1) \o SubSeq(record, k + 1, Len(record)) :
          k \in 1..Len(record)}

NormFrame ==
  UNCHANGED <<limiterVars, historyVars, apiVars, dns, dkimLoaded, dkimConfig,
              domain, pc, loc, result, trace, first, batch, flat, health, main>>

\* normalizedCurrent === normalizedExpected
CompareDMARC ==
  /\ norm.at = "check"
  /\ LET normalizedCurrent == normalizeDMARC(norm.dmarc)
         normalizedExpected == normalizeDMARC(norm.other)
     IN norm' = [norm EXCEPT
                   !.at = "done",
                   !.normalizedCurrent = normalizedCurrent,
                   !.normalizedExpected = normalizedExpected,
                   !.equal = (normalizedCurrent = normalizedExpected)]
  /\ NormFrame

NormInit ==
  /\ autodnsRate = InitialRate
  /\ refillTimer = TRUE
  /\ clock = 0
  /\ ticks = 0
  /\ callLog = <<>>
  /\ granted = <<>>
  /\ dryRun = FALSE
  /\ zones = NoZones
  /\ api = IdleCall
  /\ faults = {}
  /\ CheckIdle
  /\ batch = NoBatch
  /\ flat = NoFlat
  /\ health = NoHealth
  /\ main = NoMain
  /\ \E dmarc \in RecordsUpTo(MaxRecordLen) : \E other \in OneEditFrom(dmarc) :
       norm = [NoNorm EXCEPT !.at = "check", !.dmarc = dmarc, !.other = other]

NormNext == CompareDMARC

SpecNorm == NormInit /\ [][NormNext]_vars

\* ------------------------------------------------------------------------
\* SpecMain: main() of index.js from validateConfig to the end of the
\* process, with the limiter its API calls go through.

\* The awaited calls of the try block of main(), in order.
TrySteps ==
  <<"queryDomains", "buildFlattenedSpfRecord", "processDomains",
    "updateMainSPFRecord", "saveReport", "sendReportByEmail">>

\* The steps that call the zone API and so rateLimitAutoDNS.
ApiSteps == {"queryDomains", "processDomains", "updateMainSPFRecord"}

\* The states in which the process has ended or main() has settled.
MainEnded == {"returned", "exited", "rejected"}

StepIndex(at) == CHOOSE k \in DOMAIN TrySteps : TrySteps[k] = at

MainFrame ==
  UNCHANGED <<historyVars, apiVars, dns, dkimLoaded, dkimConfig, domain, pc,
              loc, result, trace, first, batch, flat, norm, health>>

\* validateConfig(): a ConfigurationError ends the process with
\* process.exit(1); any other error is thrown out of main(); otherwise the
\* try block is entered.
ValidateConfig ==
  /\ main.at = "validateConfig"
  /\ \E outcome \in {"ok", "ConfigurationError", "Error"} :
       main' = CASE outcome = "ok" ->
                      [main EXCEPT !.at = TrySteps[1], !.entered = TRUE]
                 [] outcome = "ConfigurationError" ->
                      [main EXCEPT !.at = "exited", !.failed = TRUE]
                 [] OTHER ->
                      [main EXCEPT !.at = "rejected", !.failed = TRUE]
  /\ UNCHANGED limiterVars
  /\ MainFrame

\* One awaited call of the try block returns, or throws into the catch
\* block; after the last one the finally block is next.
TryStep ==
  /\ \E k \in DOMAIN TrySteps : TrySteps[k] = main.at
  /\ \E thrown \in BOOLEAN :
       main' = IF thrown
                 THEN [main EXCEPT !.at = "catch", !.failed = TRUE]
                 ELSE IF StepIndex(main.at) = Len(TrySteps)
                   THEN [main EXCEPT !.at = "finally"]
                   ELSE [main EXCEPT !.at = TrySteps[StepIndex(main.at) + 1]]
  /\ UNCHANGED limiterVars
  /\ MainFrame

\* The catch block: the error is printed and process.exit(1) ends the
\* process there; the finally block is not reached.
CatchExit ==
  /\ main.at = "catch"
  /\ main' = [main EXCEPT !.at = "exited"]
  /\ UNCHANGED limiterVars
  /\ MainFrame

\* The finally block: shutdownAutoDNSRateLimiter(), then main() returns.
Finally ==
  /\ main.at = "finally"
  /\ main' = [main EXCEPT !.at = "returned", !.shutdowns = @ + 1]
  /\ refillTimer' = FALSE
  /\ UNCHANGED autodnsRate
  /\ MainFrame

\* An API call of the running step asks the limiter.
MainCall == main.at \in ApiSteps /\ Call

\* The interval timer fires while the process lives.
MainTick == main.at \notin MainEnded /\ Tick

\* Time passes while the process lives.
MainAdvance == main.at \notin MainEnded /\ Advance

MainInit ==
  /\ autodnsRate = InitialRate
  /\ refillTimer = TRUE
  /\ clock = 0
  /\ ticks = 0
  /\ callLog = <<>>
  /\ granted = <<>>
  /\ dryRun = FALSE
  /\ zones = NoZones
  /\ api = IdleCall
  /\ faults = {}
  /\ CheckIdle
  /\ batch = NoBatch
  /\ flat = NoFlat
  /\ norm = NoNorm
  /\ health = NoHealth
  /\ main = [NoMain EXCEPT !.at = "validateConfig"]

MainNext ==
  \/ ValidateConfig
  \/ TryStep
  \/ CatchExit
  \/ Finally
  \/ MainCall
  \/ MainTick
  \/ MainAdvance

SpecMain == MainInit /\ [][MainNext]_vars

\* ------------------------------------------------------------------------
\* SpecHealth: addHealthChecks and the seven health checks.
\*
\* health.lookups names the outcome of every lookup the checks make for the
\* domain: ns (resolveNs: two hosts, one host, error), nsHosts (the
\* addresses of the NS hosts), soa, caa, mtaTxt and https (the MTA-STS TXT
\* record and policy file), tlsTxt, mx (result.mxDisplay: '-' or one host),
\* mxA (the addresses of the MX host) and ptr (the reverse lookup).

LookupOutcomes ==
  [ns : {"two", "one", "error"}, nsHosts : {"resolve", "error"},
   soa : {"sane", "insane", "error"},
   caa : {"none", "issue", "iodef", "error"},
   mtaTxt : {"sts", "none", "error"}, https : {"ok", "other", "error"},
   tlsTxt : {"rpt", "none", "error"}, mx : {"-", "mx"},
   mxA : {"resolve", "error"}, ptr : {"found", "error"}]

\* The SOA records resolveSoa answers with.
SoaAnswer(outcome) ==
  IF outcome = "sane"
    THEN [refresh |-> 7200, retry |-> 1800, expire |-> 1209600,
          minttl |-> 3600]
    ELSE [refresh |-> 100000, retry |-> 1800, expire |-> 1209600,
          minttl |-> 3600]

\* resolve4(host).catch(() => []) and resolve6(host).catch(() => []) have
\* found an address.
hasAddress(outcome) == outcome = "resolve"

\* nsHostsResolvable(ns)
nsHostsResolvable(w) == hasAddress(w.nsHosts)

\* checkNS(domain)
checkNS(w) ==
  IF w.ns = "error"
    THEN Value([ok |-> FALSE, error |-> TRUE])
    ELSE LET countOk == w.ns = "two"
             resolvesOk == nsHostsResolvable(w)
         IN Value([ok |-> countOk /\ resolvesOk, error |-> FALSE])

\* checkSOASanity(soa)
checkSOASanity(soa) ==
  /\ soa.refresh >= 3600 /\ soa.refresh <= 86400
  /\ soa.retry >= 300 /\ soa.retry <= 7200
  /\ soa.expire >= 604800 /\ soa.expire <= 2419200
  /\ soa.minttl >= 60 /\ soa.minttl <= 86400

\* Mutant of checkSOA: the error of resolveSoa is not caught.
checkSOA_Uncaught(w) ==
  IF w.soa = "error"
    THEN Throws(Err("querySoa ESERVFAIL", 0))
    ELSE Value([ok |-> checkSOASanity(SoaAnswer(w.soa)), error |-> FALSE])

\* checkSOA(domain)
checkSOA(w) ==
  IF w.soa = "error"
    THEN Value([ok |-> FALSE, error |-> TRUE])
    ELSE Value([ok |-> checkSOASanity(SoaAnswer(w.soa)), error |-> FALSE])

\* checkCAA(domain): the error of resolveCaa is caught and read as no
\* record; CAA is optional, a record set must have an issue entry.
checkCAA(w) ==
  LET present == w.caa \in {"issue", "iodef"}
      hasIssue == w.caa = "issue"
  IN Value([ok |-> ~present \/ hasIssue, error |-> FALSE])

\* checkMtaSts(domain): safeResolveTxt gives [] on error; the policy file is
\* fetched only when the TXT record is found.
checkMtaSts(w) ==
  LET txtFound == w.mtaTxt = "sts"
      httpsOk == txtFound /\ w.https = "ok"
  IN Value([ok |-> txtFound /\ httpsOk, error |-> FALSE])

\* checkTlsRpt(domain)
checkTlsRpt(w) == Value([ok |-> w.tlsTxt = "rpt", error |-> FALSE])

\* checkPTRForOutbound(mxHost)
checkPTRForOutbound(w) ==
  IF ~hasAddress(w.mxA)
    THEN Value([ok |-> FALSE, error |-> FALSE])
    ELSE Value([ok |-> w.ptr = "found", error |-> FALSE])

\* result.mxDisplay === '-' ? [] : result.mxDisplay.split(',')
mxHostsOf(w) == IF w.mx = "-" THEN <<>> ELSE <<"mx.kunde.de">>

\* checkMXIntegrity(domain, mxHosts)
checkMXIntegrity(w, mxHosts) ==
  LET countOk == Len(mxHosts) >= 1
      targetsResolvable == \A i \in DOMAIN mxHosts : hasAddress(w.mxA)
  IN Value([ok |-> countOk /\ targetsResolvable, error |-> FALSE])

\* The checks whose flag is in the summary, in its order.
SummaryChecks == <<"NS", "SOA", "CAA", "MTA", "TLS", "PTR">>

flagOf(v) == IF v THEN "ok" ELSE "fail"

\* buildHealthSummary(status)
buildHealthSummary(status) ==
  [NS |-> flagOf(status.ns.ok), SOA |-> flagOf(status.soa.ok),
   CAA |-> flagOf(status.caa.ok), MTA |-> flagOf(status.mta.ok),
   TLS |-> flagOf(status.tls.ok), PTR |-> flagOf(status.ptr.ok)]

\* 'NS:fail; SOA:fail; CAA:fail; MTA:fail; TLS:fail; PTR:fail'
AllFail == [c \in {"NS", "SOA", "CAA", "MTA", "TLS", "PTR"} |-> "fail"]

\* addHealthChecks(domainName, result): the checks one after the other; a
\* check that throws ends in the catch block and in the all-fail summary.
addHealthChecks(w) ==
  LET ns == checkNS(w)
      soa == checkSOA(w)
      caa == checkCAA(w)
      mta == checkMtaSts(w)
      tls == checkTlsRpt(w)
      mxHosts == mxHostsOf(w)
      mxInt == checkMXIntegrity(w, mxHosts)
      ptr == IF Len(mxHosts) > 0 THEN checkPTRForOutbound(w)
             ELSE Value([ok |-> FALSE, error |-> FALSE])
      results == <<ns, soa, caa, mta, tls, mxInt, ptr>>
  IN IF \A i \in DOMAIN results : results[i].ok
       THEN [raised |-> FALSE,
             healthSummary |->
               buildHealthSummary([ns |-> ns.value, soa |-> soa.value,
                                   caa |-> caa.value, mta |-> mta.value,
                                   tls |-> tls.value, mx |-> mxInt.value,
                                   ptr |-> ptr.value])]
       ELSE [raised |-> TRUE, healthSummary |-> AllFail]

HealthFrame ==
  UNCHANGED <<limiterVars, historyVars, apiVars, dns, dkimLoaded, dkimConfig,
              domain, pc, loc, result, trace, first, batch, flat, norm, main>>

AddHealthChecks ==
  /\ health.at = "check"
  /\ LET r == addHealthChecks(health.lookups)
     IN health' = [health EXCEPT !.at = "done", !.raised = r.raised,
                                 !.healthSummary = r.healthSummary]
  /\ HealthFrame

HealthInit ==
  /\ autodnsRate = InitialRate
  /\ refillTimer = TRUE
  /\ clock = 0
  /\ ticks = 0
  /\ callLog = <<>>
  /\ granted = <<>>
  /\ dryRun = FALSE
  /\ zones = NoZones
  /\ api = IdleCall
  /\ faults = {}
  /\ CheckIdle
  /\ batch = NoBatch
  /\ flat = NoFlat
  /\ norm = NoNorm
  /\ main = NoMain
  /\ \E w \in LookupOutcomes :
       health = [NoHealth EXCEPT !.at = "check", !.lookups = w]

HealthNext == AddHealthChecks

SpecHealth == HealthInit /\ [][HealthNext]_vars

\* ------------------------------------------------------------------------
\* SpecTwice: a run outside dry-run, then the same run again, the resolver
\* answering with the contents of the zone throughout; no request to the
\* zone API fails
\* ------------------------------------------------------------------------

\* The values of the TXT records of a record list under one of the names.
RECURSIVE TxtRecordValues(_, _)
TxtRecordValues(rr, names) ==
  IF Len(rr) = 0 THEN <<>>
  ELSE (IF Head(rr).type = "TXT" /\ Head(rr).name \in names
          THEN <<Head(rr).value>> ELSE <<>>) \o TxtRecordValues(Tail(rr), names)

\* The record names a lookup of checkDomain asks for, relative to the zone.
LookupNames(lookup) ==
  CASE lookup = "spf" -> {"", "@"}
    [] lookup = "dmarc" -> {"_dmarc"}
    [] OTHER -> {DkimRecordName(lookup)}

\* resolveTxt answered from the zone of d: its TXT records under the name,
\* ENODATA when it has none, ENOTFOUND when there is no such zone.
ZoneAnswer(zs, d, lookup) ==
  IF d \notin ZoneNames \/ zs[d].state # "ok" THEN DnsError("ENOTFOUND")
  ELSE LET values == TxtRecordValues(Records(zs[d].obj), LookupNames(lookup))
       IN IF Len(values) = 0 THEN DnsError("ENODATA")
          ELSE DnsRecords(values)

\* The resolver of a run on domain d: the nameservers as given, the TXT
\* lookups answered from the zone.
ZoneDns(zs, d, ns) ==
  [l \in Lookups |-> IF l = "ns" THEN ns ELSE {ZoneAnswer(zs, d, l)}]

\* The entries of dkim.config.json: those of the other runs and one whose
\* selector is the key processDomains creates, which is not one of
\* config.dkimSelectors.
TwiceEntries == LoadedEntries \cup {Entry(<<DkimDesired("default", DkimKey)>>)}

TwiceInit ==
  /\ autodnsRate = InitialRate
  /\ refillTimer = TRUE
  /\ clock = 0
  /\ ticks = 0
  /\ callLog = <<>>
  /\ granted = <<>>
  /\ dryRun = FALSE
  /\ domain \in Domains
  /\ \E p \in RunZonePairs(domain) : zones = RunZones(domain, p[1], p[2])
  /\ api = IdleCall
  /\ faults = {}
  /\ \E ns \in PairAnswers("ns") :
       dns = [d \in Domains |-> ZoneDns(zones, d, {ns})]
  /\ \E e \in TwiceEntries :
       dkimLoaded = [d \in Domains |-> IF d = domain THEN e ELSE NoEntry]
  /\ dkimConfig = [d \in Domains |-> ensureEntry(dkimLoaded[d])]
  /\ pc = "start"
  /\ loc = NoLocals
  /\ result = NoResult
  /\ trace = <<>>
  /\ first = [NoPair EXCEPT !.phase = "first"]
  /\ batch = NoBatch
  /\ flat = NoFlat
  /\ norm = NoNorm
  /\ health = NoHealth
  /\ main = NoMain

\* The run has ended: its trace and result are kept and checkDomain is
\* called again for the same domain with the same configuration, the
\* resolver now answering from the zones as the run has left them.
RunAgain ==
  /\ pc = "done"
  /\ first.phase = "first"
  /\ first' = [phase |-> "second", trace |-> trace, result |-> result]
  /\ dns' = [dns EXCEPT ![domain] = ZoneDns(zones, domain, dns[domain]["ns"])]
  /\ pc' = "start"
  /\ loc' = NoLocals
  /\ result' = NoResult
  /\ trace' = <<>>
  /\ api' = IdleCall
  /\ UNCHANGED <<limiterVars, historyVars, dryRun, faults, zones, dkimLoaded,
                 dkimConfig, domain, batch, flat, norm, health, main>>

TwiceNext ==
  \/ RunNext
  \/ RunAgain

SpecTwice == TwiceInit /\ [][TwiceNext]_vars

\* ------------------------------------------------------------------------
\* Claims about the limiter (checked under Spec)
\* ------------------------------------------------------------------------

GrantIndex(id) == CHOOSE i \in DOMAIN granted : granted[i].id = id

IsGranted(id) == \E i \in DOMAIN granted : granted[i].id = id

\* C1: callers are granted in the order they called.  The grants happen in
\* increasing order of call, every caller still queued called after every
\* caller granted so far, the queue itself is in call order, and a token is
\* left for later arrivals only when no caller is queued.
C1_FifoFairness ==
  /\ \A i, j \in DOMAIN granted : i < j => granted[i].id < granted[j].id
  /\ \A i \in DOMAIN autodnsRate.queue : \A j \in DOMAIN granted :
       granted[j].id < autodnsRate.queue[i]
  /\ \A i, j \in DOMAIN autodnsRate.queue :
       i < j => autodnsRate.queue[i] < autodnsRate.queue[j]
  /\ autodnsRate.tokens > 0 => autodnsRate.queue = <<>>

\* A tick released the head of a queue that it could not empty, and a caller
\* that arrived later is still waiting behind.
C1_Witness ==
  /\ \E i \in DOMAIN granted : granted[i].via = "tick"
  /\ \E i, j \in DOMAIN granted :
       i < j /\ granted[i].via = "tick" /\ granted[j].via = "immediate"
  /\ autodnsRate.queue # <<>>

\* C2: capacity + 2 calls made before the first tick: the first capacity
\* callers are granted at once, the two others are queued in call order (and
\* are the whole queue when no further call was made), they are not granted
\* before the first tick, and the first tick releases both, in call order.
C2_CapacityPlusTwo ==
  (Len(callLog) >= CAPACITY + 2 /\ callLog[CAPACITY + 2].tick = 0) =>
    /\ \A id \in 1..CAPACITY :
         /\ IsGranted(id)
         /\ granted[GrantIndex(id)].via = "immediate"
         /\ granted[GrantIndex(id)].tick = 0
    /\ ticks = 0 =>
         /\ ~IsGranted(CAPACITY + 1) /\ ~IsGranted(CAPACITY + 2)
         /\ Len(autodnsRate.queue) >= 2
         /\ autodnsRate.queue[1] = CAPACITY + 1
         /\ autodnsRate.queue[2] = CAPACITY + 2
         /\ Len(callLog) = CAPACITY + 2 => Len(autodnsRate.queue) = 2
    /\ ticks >= 1 =>
         /\ \A id \in (CAPACITY + 1)..(CAPACITY + 2) :
              /\ IsGranted(id)
              /\ granted[GrantIndex(id)].via = "tick"
              /\ granted[GrantIndex(id)].tick = 1
         /\ GrantIndex(CAPACITY + 1) < GrantIndex(CAPACITY + 2)

\* The two queued callers of capacity + 2 early calls have been released.
C2_Witness ==
  /\ Len(callLog) = CAPACITY + 2
  /\ callLog[CAPACITY + 2].tick = 0
  /\ ticks = 1
  /\ IsGranted(CAPACITY + 2)

GrantsOfPeriod(p) == {i \in DOMAIN granted : granted[i].tick = p}

\* C3: in every refill period (before the first tick, and from one tick to
\* the next) at most capacity callers are granted, releases from the queue
\* included, and no caller is granted twice.
C3_NoDoubleGrant ==
  /\ \A p \in 0..ticks : Cardinality(GrantsOfPeriod(p)) <= CAPACITY
  /\ \A i, j \in DOMAIN granted : granted[i].id = granted[j].id => i = j

\* A period whose capacity is used up by a release from the queue together
\* with grants to later arrivals.
C3_Witness ==
  \E p \in 1..ticks :
    /\ Cardinality(GrantsOfPeriod(p)) = CAPACITY
    /\ \E i \in GrantsOfPeriod(p) : granted[i].via = "tick"
    /\ \E i \in GrantsOfPeriod(p) : granted[i].via = "immediate"

GrantsInWindow(w) == {i \in DOMAIN granted : granted[i].at \in w..(w + Slots - 1)}

\* C4: in every window of the length of one refill interval (Slots clock
\* units), wherever it starts, at most capacity requests are let through.
C4_AtMostCapacityPerWindow ==
  \A w \in 0..clock : Cardinality(GrantsInWindow(w)) <= CAPACITY

\* ------------------------------------------------------------------------
\* Claims about the API calls (checked under SpecApi)
\* ------------------------------------------------------------------------

\* The failures the retry policy is to retry: HTTP 429, HTTP 5xx and the
\* network failures ECONNRESET, ETIMEDOUT, ENOTFOUND.
RetryableFailure(e) ==
  \/ e.status = 429
  \/ e.status \in 500..599
  \/ (e.status = 0 /\ e.code \in {"ECONNRESET", "ETIMEDOUT", "ENOTFOUND"})

NoFailure(e) == e = Err("", 0)

\* C5: a call never makes more than 1 + RETRIES attempts; a call that ends
\* by raising a retryable failure has made exactly 1 + RETRIES attempts, one
\* HTTP request each; a call that ends with a response made its last attempt
\* when the response came, and a call that has ended makes no further
\* attempt.
C5_RetryThenRaise ==
  /\ [](/\ api.attempt <= RETRIES + 1
        /\ (api.phase = "done" /\ api.result.kind = "throw"
              /\ RetryableFailure(api.result.err)) =>
             (api.attempt = RETRIES + 1 /\ api.sent = RETRIES + 1)
        /\ api.result.kind # "none" => api.phase = "done"
        /\ (api.phase = "done" /\ api.result.kind = "value") =>
             api.sent = api.attempt)
  /\ [][api.phase = "done" => (api' = api \/ api'.attempt = 0)]_vars

\* A call that was answered 429 four times and has raised the failure.
C5_Witness ==
  /\ api.phase = "done"
  /\ api.result.kind = "throw"
  /\ api.result.err.status = 429
  /\ api.attempt = RETRIES + 1

\* C6: a call goes on to a further attempt only after a retryable failure;
\* a call that ends by raising a failure that is not retryable has acquired
\* one token and sent one request per attempt made, and makes no further
\* attempt and acquires no further token.
C6_NonRetryableAborts ==
  /\ [](/\ api.phase # "done" =>
             (NoFailure(api.lastErr) \/ RetryableFailure(api.lastErr))
        /\ (api.phase = "done" /\ api.result.kind = "throw"
              /\ ~RetryableFailure(api.result.err)) =>
             (api.acquired = api.attempt /\ api.sent = api.attempt))
  /\ [][(api.phase = "done" /\ api.result.kind = "throw"
           /\ ~RetryableFailure(api.result.err)) =>
          (api' = api \/ (api'.attempt = 0 /\ api'.acquired = 0))]_vars

\* A getZone that was answered 404 on its first attempt and has raised it.
C6_Witness ==
  /\ api.phase = "done"
  /\ api.result.kind = "throw"
  /\ api.result.err = NotFound
  /\ api.attempt = 1
  /\ api.acquired = 1

\* ------------------------------------------------------------------------
\* Claims about a run (checked under SpecRun and SpecPair)
\* ------------------------------------------------------------------------

\* C7: with dry-run mode on, no HTTP PUT is sent and no rate-limit token is
\* acquired for a write, whatever reconciler steps the run takes: an
\* updateZone call is over at once, without an attempt, a token or a request,
\* and returns a result of status type SUCCESS; no zone on the server changes
\* during the run and the limiter is untouched around every updateZone call.
C7_DryRunWritesNothing ==
  /\ [](dryRun /\ api.op = "updateZone" =>
          /\ api.phase = "done"
          /\ api.attempt = 0
          /\ api.acquired = 0
          /\ api.sent = 0
          /\ api.result.kind = "value"
          /\ api.result.body.status.type = "SUCCESS")
  /\ [][dryRun => zones' = zones]_vars
  /\ [][dryRun /\ (api.op = "updateZone" \/ api'.op = "updateZone")
          => autodnsRate' = autodnsRate]_vars

\* A dry run is in the DMARC reconciler's updateZone call after the SPF
\* reconciler has reported its update.
C7_Witness ==
  /\ dryRun
  /\ pc = "updWrite"
  /\ api.op = "updateZone"
  /\ loc.upd.kind = "dmarc"
  /\ result.spfStatus.kind = "ok-updated"

\* The record a reconciler targets in a record list, and the name and value
\* it wants it to have.
TargetedBy(by, selector, r) ==
  /\ r.type = "TXT"
  /\ CASE by = "spf" ->
            r.name \in {"", "@"} /\ Len(r.value) > 0 /\ r.value[1] = "v=spf1"
       [] by = "dmarc" -> r.name = "_dmarc"
       [] by = "auth" -> r.name = domain \o "._report._dmarc"
       [] OTHER -> r.name = selector \o "._domainkey"

DesiredName(by, selector) ==
  CASE by = "spf" -> ""
    [] by = "dmarc" -> "_dmarc"
    [] by = "auth" -> domain \o "._report._dmarc"
    [] OTHER -> selector \o "._domainkey"

DesiredValue(by, selector) ==
  CASE by = "spf" -> ExpectedSpf
    [] by = "dmarc" -> ExpectedDmarc
    [] by = "auth" -> <<"v=DMARC1">>
    [] OTHER ->
         LET desired == dkimConfig[domain]
             k == CHOOSE k \in DOMAIN desired : desired[k].selector = selector
         IN desired[k].value

\* C8 as stated: once a dry run and its repetition as a real run with
\* successful writes have both ended, the two have made the same API calls
\* with the same arguments, the zone object passed to updateZone included,
\* and report the same statuses.
BothRunsDone == first.phase = "second" /\ pc = "done"

C8_SameCallsAndArguments ==
  BothRunsDone => trace = first.trace /\ result = first.result

\* C8, amended: the two runs go through the same steps (the same reads of the
\* same zones, the same updateZone calls on the same zones by the same
\* reconcilers, leaving the targeted record the same) and report the same
\* statuses; the other records of the zone object passed to updateZone are not
\* compared.
StepOf(e) ==
  [by |-> e.by, selector |-> e.selector, op |-> e.op, zone |-> e.zone,
   edited |-> IF e.op = "updateZone"
                THEN {r \in {Records(e.data)[k] : k \in DOMAIN Records(e.data)} :
                        TargetedBy(e.by, e.selector, r)}
                ELSE {}]

Steps(t) == [k \in DOMAIN t |-> StepOf(t[k])]

C8_SameStepsAndStatuses ==
  BothRunsDone =>
    Steps(trace) = Steps(first.trace) /\ result = first.result

\* Both runs have ended, and the real run has passed a zone object to
\* updateZone that the dry run has not.
C8_Witness ==
  /\ BothRunsDone
  /\ Len(trace) = Len(first.trace)
  /\ \E k \in DOMAIN trace :
       trace[k].op = "updateZone" /\ trace[k] # first.trace[k]

\* C9: an answer of status type ERROR that arrives with HTTP 200 is a failed
\* operation: when the zone read or the zone write of a reconciler has been
\* answered this way, the reconciler's record is not reported ok or updated
\* by the step that takes the answer.
StatusErrorAnswer ==
  /\ api.phase = "done"
  /\ api.result.kind = "value"
  /\ api.result.body.status.type = "ERROR"

ReportsSuccess(status) ==
  status.kind \in {"ok", "ok-updated", "ok-created", "ok-updated-selector",
                   "ok-selectors"}

\* The status of the record the reconciler at work is concerned with.
StatusOfRecord(res) ==
  CASE loc.upd.kind = "spf" -> res.spfStatus
    [] loc.upd.kind = "dkim" -> res.dkimStatus
    [] OTHER -> res.dmarcStatus

C9_StatusErrorIsFailure ==
  [][StatusErrorAnswer /\ pc \in {"updRead", "updWrite"}
       => ~ReportsSuccess(StatusOfRecord(result'))]_vars

\* C10: a zone write of the SPF, DMARC, DKIM or reporting-authorization
\* reconciler goes to the zone the reconciler has read and passes the zone
\* object as the server holds it at that moment (so as read after every
\* earlier write) with one change: the targeted record has the desired value
\* and ttl 300, or is appended when the zone has none; and a write the
\* server applies changes that zone only, and in it that record only.
OnlyTargetDiffers(before, after, by, selector) ==
  LET hits == {k \in DOMAIN before : TargetedBy(by, selector, before[k])}
      wanted == DesiredValue(by, selector)
  IN IF hits = {}
       THEN after = Append(before, Rec(DesiredName(by, selector), "TXT",
                                       wanted, 300))
       ELSE /\ Len(after) = Len(before)
            /\ \E k \in hits :
                 \A j \in DOMAIN before :
                   after[j] = IF j = k
                                THEN [before[j] EXCEPT !.value = wanted,
                                                       !.ttl = 300]
                                ELSE before[j]

OtherFieldsKept(before, after) ==
  \A f \in DOMAIN before \ {"resourceRecords"} :
    f \in DOMAIN after /\ after[f] = before[f]

WriteInFlight ==
  /\ pc = "updWrite"
  /\ api.op = "updateZone"
  /\ (dryRun \/ api.phase # "done")

C10_ReadModifyWrite ==
  /\ [](WriteInFlight =>
          /\ api.zone = (IF loc.upd.kind = "auth" THEN "diebasis.de"
                         ELSE domain)
          /\ zones[api.zone].state = "ok"
          /\ OtherFieldsKept(zones[api.zone].obj, api.payload)
          /\ OnlyTargetDiffers(Records(zones[api.zone].obj),
                               Records(api.payload),
                               loc.upd.kind, loc.upd.selector))
  /\ [][zones' # zones =>
          /\ pc = "updWrite"
          /\ \A z \in ZoneNames \ {api.zone} : zones'[z] = zones[z]
          /\ zones'[api.zone].state = "ok"
          /\ OtherFieldsKept(zones[api.zone].obj, zones'[api.zone].obj)
          /\ OnlyTargetDiffers(Records(zones[api.zone].obj),
                               Records(zones'[api.zone].obj),
                               loc.upd.kind, loc.upd.selector)]_vars

\* The DMARC reconciler's write is on its way to a zone that holds other
\* records and, by an earlier write of the run, the expected SPF record.
C10_Witness ==
  /\ ~dryRun
  /\ pc = "updWrite"
  /\ loc.upd.kind = "dmarc"
  /\ api.op = "updateZone"
  /\ api.phase = "request"
  /\ Len(Records(api.payload)) > 4
  /\ \E k \in DOMAIN Records(zones[domain].obj) :
       Records(zones[domain].obj)[k].value = ExpectedSpf

\* ------------------------------------------------------------------------
\* The run of checkDomain on a delegated domain: checks and remediation
\* ------------------------------------------------------------------------

\* The order of the stages of checkDomain, the reconcilers having the stage
\* of the update that calls them.
StageOf(p, kind) ==
  CASE p = "start" -> 0
    [] p = "spf" -> 1
    [] p = "dmarc" -> 2
    [] p = "dkim" -> 3
    [] p = "dkimDns" -> 4
    [] p = "dkimList" -> 5
    [] p = "dkimEnsure" -> 6
    [] p = "spfUpdate" -> 7
    [] p = "dmarcUpdate" -> 9
    [] p = "records" -> 12
    [] p = "recordsRead" -> 13
    [] p = "done" -> 14
    [] kind = "dkim" -> 6
    [] kind = "spf" -> 8
    [] kind = "auth" -> 10
    [] OTHER -> 11

Stage == StageOf(pc, loc.upd.kind)

\* What a check sees in the resolver's answer: the expected record, another
\* one, none (the answer has no such record, or the name or the record type
\* does not exist), or a lookup that failed.
FirstWith(records, word) ==
  records[CHOOSE i \in DOMAIN records :
            /\ StartsWith(records[i], word)
            /\ \A j \in 1..(i - 1) : ~StartsWith(records[j], word)]

Seen(answer, word, same) ==
  IF answer.ok
    THEN IF \E i \in DOMAIN answer.records : StartsWith(answer.records[i], word)
           THEN IF same[FirstWith(answer.records, word)] THEN "expected"
                ELSE "differs"
           ELSE "absent"
    ELSE IF answer.code \in {"ENODATA", "ENOTFOUND"} THEN "absent"
         ELSE "failed"

TxtValues ==
  {ExpectedSpf, OldSpf, Verification, ExpectedDmarc, SpacedDmarc, OldDmarc}

SpfSeen(answer) ==
  Seen(answer, "v=spf1", [v \in TxtValues |-> v = ExpectedSpf])

DmarcSeen(answer) ==
  Seen(answer, "v=DMARC1",
       [v \in TxtValues |-> normalizeDMARC(v) = normalizeDMARC(ExpectedDmarc)])

\* The decision a check takes on what it has seen.
Decided(seen, status, needsUpdate) ==
  CASE seen = "expected" -> status = Status("ok", <<>>) /\ ~needsUpdate
    [] seen \in {"absent", "differs"} ->
         status = Status("needs-update", <<>>) /\ needsUpdate
    [] OTHER -> status.kind = "error" /\ ~needsUpdate

HasTxt(rr, names, value) ==
  \E k \in DOMAIN rr :
    rr[k].type = "TXT" /\ rr[k].name \in names /\ rr[k].value = value

\* C11: on a delegated domain whose lookups have one answer each, the SPF
\* check that sees the expected record
\* (the DMARC check: a record equal to the expected one after normalization)
\* reports ok, and the reconciler of that record is never called, so that no
\* write is issued for it; the check that sees no record (absence is not an
\* error) or another record reports needs-update, and the reconciler of that
\* record is then called, once in the run (the stages of a run follow one
\* another and the updates are left at once), and what it writes carries
\* the expected value.
C11_CheckDecidesWrite ==
  /\ [][/\ pc = "spf" /\ pc' # "spf"
          => \A a \in dns[domain]["spf"] :
               Decided(SpfSeen(a), result'.spfStatus, loc'.spfNeedsUpdate)]_vars
  /\ [][/\ pc = "dmarc" /\ pc' # "dmarc"
          => \A a \in dns[domain]["dmarc"] :
               Decided(DmarcSeen(a), result'.dmarcStatus,
                       loc'.dmarcNeedsUpdate)]_vars
  /\ [](/\ ~loc.spfNeedsUpdate => loc.upd.kind # "spf"
        /\ ~loc.dmarcNeedsUpdate => loc.upd.kind \notin {"auth", "dmarc"}
        /\ result.spfStatus.kind = "ok" => ~loc.spfNeedsUpdate
        /\ result.dmarcStatus.kind = "ok" => ~loc.dmarcNeedsUpdate)
  /\ [][/\ pc = "spfUpdate" /\ loc.spfNeedsUpdate
             => pc' = "updRead" /\ loc'.upd.kind = "spf"
        /\ pc = "dmarcUpdate" /\ loc.dmarcNeedsUpdate
             => pc' = "updRead" /\ loc'.upd.kind = "auth"
        /\ loc.upd.kind = "auth" /\ loc'.upd.kind # "auth"
             => pc' = "updRead" /\ loc'.upd.kind = "dmarc"
        /\ loc.upd.kind # "spf" /\ loc'.upd.kind = "spf" => pc = "spfUpdate"
        /\ loc.upd.kind # "dmarc" /\ loc'.upd.kind = "dmarc"
             => loc.upd.kind = "auth"
        /\ first' = first => Stage' >= Stage
        /\ pc \in {"spfUpdate", "dmarcUpdate"} => Stage' > Stage]_vars
  /\ [](pc = "updWrite" /\ api.op = "updateZone" =>
          /\ loc.upd.kind = "spf" =>
               HasTxt(Records(api.payload), {"", "@"}, ExpectedSpf)
          /\ loc.upd.kind = "dmarc" =>
               HasTxt(Records(api.payload), {"_dmarc"}, ExpectedDmarc))

\* The resolver has no SPF record for the domain and holds the expected
\* DMARC record: the SPF reconciler's write is on its way, and DMARC is ok.
C11_Witness ==
  /\ pc = "updWrite"
  /\ loc.upd.kind = "spf"
  /\ api.op = "updateZone"
  /\ loc.spfCurrentValue = <<"No SPF record">>
  /\ result.dmarcStatus = Status("ok", <<>>)
  /\ ~loc.dmarcNeedsUpdate

\* C12: when the zone the SPF reconciler has read holds a CNAME record at
\* the apex (name '' or '@'), the reconciler ends with the apex-CNAME
\* conflict error without a zone write: the step that takes the zone sets
\* the SPF status to the error naming the conflict, starts no call and
\* leaves the zones as they are; and no write of the SPF reconciler carries
\* an apex CNAME record.
ApexCname(rr) ==
  \E k \in DOMAIN rr : rr[k].type = "CNAME" /\ rr[k].name \in {"", "@"}

ApexCnameRead ==
  /\ pc = "updRead"
  /\ loc.upd.kind = "spf"
  /\ api.phase = "done"
  /\ api.result.kind = "value"
  /\ "data" \in DOMAIN api.result.body
  /\ Len(api.result.body.data) > 0
  /\ ApexCname(Records(api.result.body.data[1]))

ConflictStatus ==
  Status("error",
         <<"Update failed: Apex has a CNAME record; cannot add/update SPF TXT at zone apex due to DNS constraints">>)

C12_ApexCnameBlocksSpf ==
  /\ [][ApexCnameRead =>
          /\ result'.spfStatus = ConflictStatus
          /\ result'.dmarcStatus = result.dmarcStatus
          /\ result'.dkimStatus = result.dkimStatus
          /\ api' = IdleCall
          /\ pc' = "dmarcUpdate"
          /\ zones' = zones]_vars
  /\ [](pc = "updWrite" /\ loc.upd.kind = "spf"
          => ~ApexCname(Records(api.payload)))

\* The SPF update of a domain whose zone has an apex CNAME has ended, outside
\* dry-run mode: the conflict is reported and the zone still has no SPF
\* record.
C12_Witness ==
  /\ ~dryRun
  /\ pc = "dmarcUpdate"
  /\ result.spfStatus = ConflictStatus
  /\ domain \in ZoneNames
  /\ zones[domain].state = "ok"
  /\ ApexCname(Records(zones[domain].obj))
  /\ ~HasTxt(Records(zones[domain].obj), {"", "@"}, ExpectedSpf)

\* C13: on a delegated domain, a failure while a record type is checked or
\* written changes the status of that record type only and is followed by
\* the next stage of the run: a step of the run changes the status of the
\* record type it works on and no other; the step in which a status becomes
\* an error goes on to the next check, update or selector; and at the end of
\* the run each of the three statuses is set and none is left at
\* 'needs-update', whatever has failed before.
SpfStep == pc \in {"spf", "spfUpdate"} \/ loc.upd.kind = "spf"
DmarcStep == pc \in {"dmarc", "dmarcUpdate"} \/ loc.upd.kind \in {"auth", "dmarc"}
DkimStep ==
  pc \in {"dkim", "dkimDns", "dkimList", "dkimEnsure"} \/ loc.upd.kind = "dkim"

BecomesError(before, after) == after.kind = "error" /\ before.kind # "error"

Delegated == pc # "start" /\ result.spfStatus # Status("skipped", NotAutoDns)

C13_FailureIsolation ==
  /\ [][pc \notin {"start", "done"} =>
          /\ result'.spfStatus # result.spfStatus => SpfStep
          /\ result'.dmarcStatus # result.dmarcStatus => DmarcStep
          /\ result'.dkimStatus # result.dkimStatus => DkimStep
          /\ BecomesError(result.spfStatus, result'.spfStatus)
               => pc' \in {"dmarc", "dmarcUpdate"}
          /\ BecomesError(result.dmarcStatus, result'.dmarcStatus)
               => pc' \in {"dkim", "records"}
          /\ BecomesError(result.dkimStatus, result'.dkimStatus)
               => pc' = "dkimEnsure"]_vars
  /\ [](pc = "done" /\ Delegated =>
          /\ result.spfStatus.kind \in {"ok", "ok-updated", "error"}
          /\ result.dmarcStatus.kind \in {"ok", "ok-updated", "error"}
          /\ result.dkimStatus.kind \notin {"", "needs-update"}
          /\ loc.spfNeedsUpdate => result.spfStatus.kind # "ok"
          /\ loc.dmarcNeedsUpdate => result.dmarcStatus.kind # "ok")

\* The run has ended, outside dry-run mode: the SPF update has failed, the
\* DMARC record has been written after it and a DKIM selector after both
\* checks.
C13_Witness ==
  /\ ~dryRun
  /\ pc = "done"
  /\ result.spfStatus.kind = "error"
  /\ loc.spfNeedsUpdate
  /\ result.dmarcStatus.kind = "ok-updated"
  /\ domain \in ZoneNames
  /\ zones[domain].state = "ok"
  /\ HasTxt(Records(zones[domain].obj), {"_dmarc"}, ExpectedDmarc)
  /\ result.dkimStatus.kind \in {"ok-created", "ok-updated-selector"}

\* C14: when the zone write of the SPF or of the DMARC reconciler fails (the
\* zone read fails, the zone data read is invalid, or the write request
\* fails), the step of checkDomain that takes the failure sets the status of
\* that record type to an error status, not to 'ok - updated'.
ZoneWriteFails ==
  /\ pc \in {"updRead", "updWrite"}
  /\ loc.upd.kind \in {"spf", "dmarc"}
  /\ api.phase = "done"
  /\ \/ api.result.kind = "throw"
     \/ /\ pc = "updRead"
        /\ api.result.kind = "value"
        /\ \/ "data" \notin DOMAIN api.result.body
           \/ Len(api.result.body.data) = 0

C14_FailedWriteIsError ==
  [][ZoneWriteFails => StatusOfRecord(result').kind = "error"]_vars

\* C15: outside dry-run mode, whenever the DMARC status of the run is
\* 'ok - updated', the zone of the reporting-authorization domain holds a TXT
\* record named '<domain>._report._dmarc'; and the reporting-authorization
\* reconciler's write is applied to that zone only when the zone of the
\* domain holds the expected DMARC record, its own DMARC update having
\* succeeded.
AuthorizationHeld ==
  /\ zones[dmarcReportAuthDomain].state = "ok"
  /\ \E k \in DOMAIN Records(zones[dmarcReportAuthDomain].obj) :
       LET r == Records(zones[dmarcReportAuthDomain].obj)[k]
       IN r.type = "TXT" /\ r.name = domain \o "._report._dmarc"

DmarcWritten ==
  /\ domain \in ZoneNames
  /\ zones[domain].state = "ok"
  /\ HasTxt(Records(zones[domain].obj), {"_dmarc"}, ExpectedDmarc)

C15_UpdatedImpliesAuthorized ==
  []((~dryRun /\ result.dmarcStatus.kind = "ok-updated") => AuthorizationHeld)

C15_AuthorizedOnlyAfterUpdate ==
  [][(loc.upd.kind = "auth"
        /\ zones'[dmarcReportAuthDomain] # zones[dmarcReportAuthDomain])
       => DmarcWritten]_vars

C15_AuthorizationFollowsDmarc ==
  C15_UpdatedImpliesAuthorized /\ C15_AuthorizedOnlyAfterUpdate

\* C16: the reporting-authorization reconciler, having read the zone of the
\* reporting-authorization domain, issues a write exactly when the zone has
\* no TXT record named '<domain>._report._dmarc': with such a record,
\* whatever its value, it ends without a write and the zones stay as they
\* are; and on the zone a write of it has produced, the reconciler finds the
\* record and writes nothing.
AuthorizationRecords(rr) ==
  {k \in DOMAIN rr :
     rr[k].type = "TXT" /\ rr[k].name = domain \o "._report._dmarc"}

AuthorizationRead ==
  /\ pc = "updRead"
  /\ loc.upd.kind = "auth"
  /\ api.phase = "done"
  /\ api.result.kind = "value"
  /\ "data" \in DOMAIN api.result.body
  /\ Len(api.result.body.data) > 0

AuthorizationWriteApplied ==
  /\ loc.upd.kind = "auth"
  /\ zones'[dmarcReportAuthDomain] # zones[dmarcReportAuthDomain]

C16_AuthorizationWrittenOnce ==
  /\ [][(AuthorizationRead
           /\ AuthorizationRecords(Records(api.result.body.data[1])) # {})
          => /\ api'.op = "getZone"
             /\ loc'.upd.kind = "dmarc"
             /\ zones' = zones]_vars
  /\ [][(AuthorizationRead
           /\ AuthorizationRecords(Records(api.result.body.data[1])) = {})
          => /\ pc' = "updWrite"
             /\ api'.op = "updateZone"
             /\ api'.zone = dmarcReportAuthDomain
             /\ loc'.upd.kind = "auth"]_vars
  /\ [][AuthorizationWriteApplied =>
          LET again == addDMARCReportAuthRecord(
                         SuccessBody(<<zones'[dmarcReportAuthDomain].obj>>),
                         domain)
          IN again.ok /\ ~again.write]_vars

\* The reconciler has ended without a write, outside dry-run mode, on a zone
\* whose record of that name has another value than 'v=DMARC1'.
C16_Witness ==
  /\ ~dryRun
  /\ pc = "updRead"
  /\ loc.upd.kind = "dmarc"
  /\ api.op = "getZone"
  /\ \E k \in AuthorizationRecords(Records(zones[dmarcReportAuthDomain].obj)) :
       Records(zones[dmarcReportAuthDomain].obj)[k].value # <<"v=DMARC1">>

\* Its write has been applied to a zone that had no such record.
C16_WitnessWritten ==
  /\ ~dryRun
  /\ pc = "updRead"
  /\ loc.upd.kind = "dmarc"
  /\ \E k \in AuthorizationRecords(Records(zones[dmarcReportAuthDomain].obj)) :
       Records(zones[dmarcReportAuthDomain].obj)[k].ttl = 300

\* C17: on a delegated domain, once the DKIM check has been made, a domain
\* whose DKIM config entry has selectors that all have an empty desired value
\* has the DKIM status 'skipped', and a domain that had no DKIM config entry
\* when the config was loaded has another DKIM status than that one.
AllValuesEmpty(e) ==
  /\ e.present
  /\ Len(e.selectors) > 0
  /\ \A k \in DOMAIN e.selectors :
       \A j \in DOMAIN e.selectors[k].value : e.selectors[k].value[j] \in WS

DkimChecked == Delegated /\ Stage > 3

C17_EmptyValuesSkipped ==
  (DkimChecked /\ AllValuesEmpty(dkimLoaded[domain]))
    => result.dkimStatus = Status("skipped", <<>>)

C17_SkippedIsNotNoConfig ==
  /\ C17_EmptyValuesSkipped
  /\ (DkimChecked /\ ~dkimLoaded[domain].present)
       => result.dkimStatus # Status("skipped", <<>>)

\* C18: in the loop over the desired DKIM selectors of a domain, a selector
\* with an empty desired value is passed over without a write; for a
\* selector with a non-empty desired value the DKIM reconciler is called,
\* for that selector, exactly when no existing record of the selector was
\* found or the value found differs from the desired one once leading and
\* trailing whitespace is dropped and every run of whitespace counts as one
\* space, so that a difference in whitespace only causes no write.

\* s without its leading and trailing whitespace, each whitespace run in
\* between standing as one space.
Squeezed(s) ==
  LET keep == {i \in DOMAIN s :
                 \/ s[i] \notin WS
                 \/ /\ i > 1
                    /\ s[i - 1] \notin WS
                    /\ \E j \in (i + 1)..Len(s) : s[j] \notin WS}
      at(k) == CHOOSE i \in keep : Cardinality({j \in keep : j <= i}) = k
  IN [k \in 1..Cardinality(keep) |->
        IF s[at(k)] \in WS THEN " " ELSE s[at(k)]]

ExistingRecords(selector) ==
  {k \in DOMAIN loc.dkimResults :
     loc.dkimResults[k].selector = selector /\ loc.dkimResults[k].found}

SelectorNeedsWrite(selector, value) ==
  \/ ExistingRecords(selector) = {}
  \/ \E k \in ExistingRecords(selector) :
       /\ \A j \in ExistingRecords(selector) : k <= j
       /\ Squeezed(loc.dkimResults[k].fullValue) # Squeezed(value)

AtSelector ==
  /\ pc = "dkimEnsure"
  /\ loc.i \in DOMAIN dkimConfig[domain]

DesiredAt == dkimConfig[domain][loc.i]

ReconcilerCalled ==
  /\ pc' = "updRead"
  /\ api'.op = "getZone"
  /\ loc'.upd.kind = "dkim"
  /\ loc'.upd.selector = DesiredAt.selector

SelectorPassed ==
  /\ pc' = "dkimEnsure"
  /\ loc'.i = loc.i + 1
  /\ loc'.upd.kind = "none"
  /\ api' = api
  /\ result' = result

DnsFindsSelector(selector) ==
  \E a \in dns[domain][selector] :
    a.ok /\ \E k \in DOMAIN a.records : LooksLikeDkim(a.records[k])

DnsFindsSome == \E k \in DOMAIN dkimSelectors : DnsFindsSelector(dkimSelectors[k])

ListingRead == \E k \in DOMAIN trace : trace[k].by = "list"

C19_ListingOnlyAfterEmptyDns ==
  /\ []((pc = "dkimList" \/ ListingRead) => ~DnsFindsSome)
  /\ [][(pc' = "dkimList" /\ pc # "dkimList")
          => /\ pc = "dkimDns"
             /\ loc.i = Len(dkimSelectors)
             /\ api'.op = "getZone"]_vars
  /\ [][(pc' = "dkimDns" /\ pc = "dkimDns") => loc'.i = loc.i + 1]_vars
  /\ [][(pc = "dkimDns" /\ \E k \in DOMAIN loc'.dkimResults :
                              loc'.dkimResults[k].found)
          => pc' \in {"dkimDns", "dkimEnsure"} /\ api' = api]_vars

\* No selector has a DKIM record in DNS and the zone listing has been read.
C19_Witness ==
  /\ pc = "dkimList"
  /\ api.phase = "done"
  /\ ListingRead
  /\ ~DnsFindsSome

\* DNS holds a DKIM record for a selector: the detection has ended without
\* the zone listing.
C19_WitnessFound ==
  /\ pc = "dkimEnsure"
  /\ DnsFindsSome
  /\ ~ListingRead

\* C20: in a run on a domain that is not delegated to the AutoDNS
\* nameservers (none of its nameservers is one of them, it has no
\* nameserver, or the NS lookup fails), the three statuses are 'skipped - not
\* using AutoDNS nameservers' from the nameserver check on, no check, update
\* or reconciler takes place, no zone write is issued and no zone changes,
\* and the run goes on to the lookup of the A/AAAA/MX records, which it has
\* made when it ends.
NotDelegated ==
  \A a \in dns[domain]["ns"] :
    \/ ~a.ok
    \/ \A k \in DOMAIN a.records :
         a.records[k] \notin {"a.ns14.net", "A.NS14.NET.", "b.ns14.net"}

RecordsLookedUp ==
  \E k \in DOMAIN trace :
    trace[k].by = "records" /\ trace[k].op = "getZone"

C20_UndelegatedOnlyDisplayed ==
  /\ []((NotDelegated /\ pc # "start") =>
          /\ result.spfStatus = Status("skipped", NotAutoDns)
          /\ result.dmarcStatus = Status("skipped", NotAutoDns)
          /\ result.dkimStatus = Status("skipped", NotAutoDns)
          /\ pc \in {"records", "recordsRead", "done"}
          /\ loc.upd.kind = "none"
          /\ api.op # "updateZone"
          /\ \A k \in DOMAIN trace : trace[k].op # "updateZone")
  /\ [][NotDelegated => zones' = zones]_vars
  /\ [][(NotDelegated /\ pc = "start") => pc' = "records"]_vars
  /\ []((NotDelegated /\ pc = "done") => RecordsLookedUp)

\* The NS lookup of the domain fails: the run outside dry-run mode has ended
\* with the lookup of the records made.
C20_Witness ==
  /\ \E a \in dns[domain]["ns"] : ~a.ok
  /\ ~dryRun
  /\ pc = "done"
  /\ RecordsLookedUp
  /\ result.dkimStatus = Status("skipped", NotAutoDns)

\* ------------------------------------------------------------------------
\* Claims about processDomains (checked under SpecBatch)
\* ------------------------------------------------------------------------

\* The place of a letter in the alphabet whatever its case, and the
\* alphabetical order of two names by it.
LetterRank(c) ==
  CASE c \in {"a", "A"} -> 1
    [] c \in {"b", "B"} -> 2
    [] OTHER -> 0

NotAfter(a, b) ==
  \/ \E i \in DOMAIN a \cap DOMAIN b :
       /\ \A j \in 1..(i - 1) : LetterRank(a[j]) = LetterRank(b[j])
       /\ LetterRank(a[i]) < LetterRank(b[i])
  \/ /\ Len(a) <= Len(b)
     /\ \A j \in DOMAIN a : LetterRank(a[j]) = LetterRank(b[j])

\* The names of the domain list that pass the test-domain filter.
ListedNames ==
  {batch.data[i] : i \in {j \in DOMAIN batch.data :
                            \/ batch.testDomains = {}
                            \/ batch.data[j] \in batch.testDomains}}

IsStart(e) == e.step = "start"

\* C21: processDomains appends exactly one entry to the report for each
\* domain of the filtered list, in case-insensitive alphabetical order of the
\* names; when checkDomain has ended, with its result or with the result of
\* its top-level catch, or something has thrown, the step that follows
\* appends the entry of that domain (an error-tagged one after a failure)
\* and the loop goes on with the next domain; and the steps of a domain
\* lie between its start and its report, no step of another domain among
\* them.
C21_OneEntryPerDomainInOrder ==
  /\ [](batch.at = "end" /\ Len(batch.data) > 0 =>
          /\ Len(batch.fileOutput) = Cardinality(ListedNames)
          /\ {batch.fileOutput[i].name : i \in DOMAIN batch.fileOutput}
               = ListedNames)
  /\ [](\A i, j \in DOMAIN batch.fileOutput :
          i < j => NotAfter(batch.fileOutput[i].name, batch.fileOutput[j].name))
  /\ [][batch.at = "returned" =>
          /\ Len(batch'.fileOutput) = Len(batch.fileOutput) + 1
          /\ batch'.fileOutput[Len(batch'.fileOutput)].name
               = batch.domains[batch.k]
          /\ batch.result = "fatal" =>
               batch'.fileOutput[Len(batch'.fileOutput)].kind
                 \in {"fatal", "failed"}
          /\ batch'.at = "next"]_vars
  /\ [][(batch.at = "checking" /\ batch'.result = "fatal") =>
          batch'.at = "returned" /\ batch'.k = batch.k]_vars
  /\ [](\A i \in DOMAIN batch.log :
          /\ \A j \in DOMAIN batch.log :
               i < j => batch.log[i].k <= batch.log[j].k
          /\ (batch.log[i].step = "start" /\ i > 1) =>
               /\ batch.log[i - 1].step = "report"
               /\ batch.log[i - 1].k + 1 = batch.log[i].k
          /\ batch.log[i].step = "start" => batch.log[i].k = Len(
               SelectSeq(SubSeq(batch.log, 1, i), IsStart)))

\* processDomains has returned the report of three domains that were not
\* listed in alphabetical order: the first failed inside checkDomain, the
\* second in the try block of processDomains, the third has its result.
C21_Witness ==
  /\ batch.at = "end"
  /\ Len(batch.fileOutput) = 3
  /\ batch.fileOutput[1].name # batch.data[1]
  /\ batch.fileOutput[1].kind = "fatal"
  /\ batch.fileOutput[2].kind = "failed"
  /\ batch.fileOutput[3].kind = "result"

\* C22: in a run on a delegated domain whose SPF lookup does not answer
\* within 5 s or fails with an error other than absence, the SPF status is
\* an error from the SPF check on and carries the message of the failure once
\* the update stage has passed, the SPF reconciler is never called, and the
\* run ends with the DMARC and DKIM checks made, their updates attempted
\* where needed and the records and health checks reached.
SpfLookupFails ==
  \A a \in dns[domain]["spf"] :
    ~a.ok /\ a.code \notin {"ENODATA", "ENOTFOUND"}

SpfFailureMessage ==
  IF \E a \in dns[domain]["spf"] : a.code = "LATE" THEN "SPF query timeout"
  ELSE (CHOOSE a \in dns[domain]["spf"] : TRUE).code

CalledBy(by) == \E k \in DOMAIN trace : trace[k].by = by

C22_SpfLookupFailureIsolated ==
  (~NotDelegated /\ SpfLookupFails) =>
    /\ Stage > 1 =>
         /\ result.spfStatus.kind = "error"
         /\ ~loc.spfNeedsUpdate
    /\ Stage > 7 => result.spfStatus = Status("error", <<SpfFailureMessage>>)
    /\ loc.upd.kind # "spf"
    /\ ~CalledBy("spf")
    /\ pc = "done" =>
         /\ result.dmarcStatus.kind \in {"ok", "ok-updated", "error"}
         /\ loc.dmarcNeedsUpdate => CalledBy("auth") /\ CalledBy("dmarc")
         /\ result.dkimStatus.kind \notin {"", "needs-update"}
         /\ \A k \in DOMAIN dkimConfig[domain] :
              (/\ result.dkimStatus.kind # "skipped"
               /\ SelectorNeedsWrite(dkimConfig[domain][k].selector,
                                     dkimConfig[domain][k].value)
               /\ Squeezed(dkimConfig[domain][k].value) # <<>>)
                => \E j \in DOMAIN trace :
                     /\ trace[j].by = "dkim"
                     /\ trace[j].selector = dkimConfig[domain][k].selector
         /\ RecordsLookedUp

\* The SPF lookup has timed out: the run outside dry-run mode has ended, the
\* DMARC record and a DKIM selector have been written.
C22_Witness ==
  /\ ~NotDelegated
  /\ \E a \in dns[domain]["spf"] : a.code = "LATE"
  /\ ~dryRun
  /\ pc = "done"
  /\ result.spfStatus = Status("error", <<"SPF query timeout">>)
  /\ result.dmarcStatus.kind = "ok-updated"
  /\ result.dkimStatus.kind \in {"ok-created", "ok-updated-selector"}
  /\ \E k \in DOMAIN trace :
       trace[k].by = "dmarc" /\ trace[k].op = "updateZone"

\* C23: in a run outside dry-run mode on a delegated domain that has no SPF
\* record in DNS, whose DMARC record in DNS is the expected one or differs
\* from it only in the whitespace normalization removes, and whose DKIM
\* config has no non-empty selector value: the SPF status is needs-update
\* from the SPF check to the SPF update; and when the run has ended with the
\* expected SPF record written to the zone, the SPF status is 'ok - updated
\* from "No SPF record"', the DMARC status is ok, the DKIM status is skipped
\* and the one zone write of the run is that of the SPF reconciler.
EndToEndCase ==
  /\ ~NotDelegated
  /\ \A a \in dns[domain]["spf"] : SpfSeen(a) = "absent"
  /\ \A a \in dns[domain]["dmarc"] :
       a.ok /\ a.records \in {<<ExpectedDmarc>>, <<SpacedDmarc>>}
  /\ \A k \in DOMAIN dkimConfig[domain] :
       Squeezed(dkimConfig[domain][k].value) = <<>>

SpfRecordWritten ==
  /\ ~dryRun
  /\ domain \in ZoneNames
  /\ zones[domain].state = "ok"
  /\ HasTxt(Records(zones[domain].obj), {"", "@"}, ExpectedSpf)

ZoneWrites == {k \in DOMAIN trace : trace[k].op = "updateZone"}

C23_SpfOnlyEndToEnd ==
  EndToEndCase =>
    /\ (Stage > 1 /\ Stage < 8) =>
         result.spfStatus = Status("needs-update", <<>>)
    /\ (pc = "done" /\ SpfRecordWritten) =>
         /\ result.spfStatus = Status("ok-updated", <<"No SPF record">>)
         /\ result.dmarcStatus = Status("ok", <<>>)
         /\ result.dkimStatus = Status("skipped", <<>>)
         /\ Cardinality(ZoneWrites) = 1
         /\ \A k \in ZoneWrites :
              /\ trace[k].by = "spf"
              /\ trace[k].zone = domain
              /\ HasTxt(Records(trace[k].data), {"", "@"}, ExpectedSpf)

\* Such a run has ended on a zone that had other records.
C23_Witness ==
  /\ EndToEndCase
  /\ pc = "done"
  /\ SpfRecordWritten
  /\ Len(Records(zones[domain].obj)) > 2
  /\ \E a \in dns[domain]["dmarc"] : a.records = <<SpacedDmarc>>


\* ------------------------------------------------------------------------
\* Claims about the SPF flattening

\* The elements of a list.
Listed(list) == {list[i] : i \in DOMAIN list}

\* The terms of a record, as the claims speak of them.
TermsOf(record) == Listed(splitWs(record))

\* C24: whatever the include graph and the DNS answers are, a flattening
\* that has been started comes to its end and has its record, also where
\* a.com includes b.com and b.com includes a.com and where a domain
\* includes itself.
C24_FlatteningTerminates == (flat.at = "start") ~> (flat.at = "done")

\* A flattening has ended in which an include led back to a domain whose
\* record was being resolved.
C24_Witness ==
  /\ flat.at = "done"
  /\ flat.txt \in {"cycle", "self"}
  /\ <<"a.com">> \in Listed(flat.skipped)
  /\ Len(flat.flattenedSpf) > 0

\* C25: during one flattening no include domain is looked up twice, and a
\* domain is skipped only where it is in the visited set, that is after its
\* one lookup, at whatever depth it comes again.
C25_EachIncludeLookedUpOnce ==
  /\ \A i, j \in DOMAIN flat.queried :
       flat.queried[i] = flat.queried[j] => i = j
  /\ Listed(flat.skipped) \subseteq Listed(flat.queried)
  /\ flat.at = "resolve" => Listed(flat.queried) = flat.visited

\* z.com is included by a.com and by b.com: it was looked up for the first
\* and skipped for the second.
C25_Witness ==
  /\ flat.at = "done"
  /\ flat.txt = "diamond"
  /\ <<"z.com">> \in Listed(flat.skipped)
  /\ <<"b.com">> \in Listed(flat.queried)

\* The address of the k-th record of the chain is a term of the record.
ChainTermIn(k, record) == <<"ip4:", ChainAddresses[k]>> \in TermsOf(record)

\* C26: no call above depth 10 reads its record: the include that would
\* start one contributes nothing, the records of the levels up to 10 and the
\* terms of the base record are in the flattened record, and the record is
\* built.
C26_DepthCeiling ==
  /\ \A n \in DOMAIN flat.stack : flat.stack[n].depth <= MaxDepth
  /\ \A n \in DOMAIN flat.cut : flat.cut[n] \in Listed(flat.queried)
  /\ (flat.at = "done" /\ Len(flat.cut) > 0) =>
       /\ \A k \in DOMAIN ChainNames :
            ChainTermIn(k, flat.flattenedSpf) <=> k <= MaxDepth
       /\ <<"ip4:", "9.9.9.9">> \in TermsOf(flat.flattenedSpf)
       /\ <<ChainNames[MaxDepth + 2]>> \notin Listed(flat.queried)

\* The chain was followed to its eleventh record, whose call was cut, and
\* the record was built.
C26_Witness ==
  /\ flat.at = "done"
  /\ flat.cut = <<<<ChainNames[MaxDepth + 1]>>>>
  /\ ChainTermIn(MaxDepth, flat.flattenedSpf)


\* The a:host and mx:host terms of a record.
HostTerms(record) ==
  {part \in TermsOf(record) : StartsWith(part, "a:") \/ StartsWith(part, "mx:")}

\* The ip4:/ip6: mechanisms the forward resolution of a term gives in the
\* DNS of this flattening; none when it fails or finds no address.
AddressesOf(part) ==
  IF StartsWith(part, "a:")
    THEN resolveHostToIPs(flat.hosts, Tail(part)).value
    ELSE resolveMxToIPs(flat.hosts, Tail(part)).value

\* C27: in the record built from a base record, an a:host or mx:host term
\* whose resolution failed or gave no address is kept as it was, and one
\* whose resolution gave addresses is replaced by their ip4:/ip6:
\* mechanisms.
C27_UnresolvedHostTermKept ==
  (flat.at = "done" /\ flat.pass = 1) =>
    \A part \in HostTerms(flat.given) :
      IF AddressesOf(part) = <<>>
        THEN part \in TermsOf(flat.flattenedSpf)
        ELSE /\ Listed(AddressesOf(part)) \subseteq TermsOf(flat.flattenedSpf)
             /\ part \notin TermsOf(flat.flattenedSpf)

\* The all variants the claims name.
AllVariants ==
  {<<"all">>, <<"-", "all">>, <<"~", "all">>, <<"+", "all">>, <<"?", "all">>}

IsModifierTerm(term) == StartsWith(term, "redirect=") \/ term \in AllVariants

IsOtherModifier(term) == term \notin AllVariants

\* The place of the first occurrence of a term in a list.
FirstIndex(list, term) ==
  CHOOSE i \in DOMAIN list :
    list[i] = term /\ \A j \in 1..(i - 1) : list[j] # term

\* The terms of the record come in the order of their first occurrence in
\* the list they were collected in.
InCollectedOrder(terms, collected) ==
  \A i, j \in DOMAIN terms :
    (i < j /\ terms[i] \in Listed(collected) /\ terms[j] \in Listed(collected))
      => FirstIndex(collected, terms[i]) < FirstIndex(collected, terms[j])

\* C28: the record built is 'v=spf1', the mechanisms, the modifiers other
\* than all, then the all modifier when one was collected; no term is there
\* twice, each group is in the order of first occurrence, and the includes
\* of x.com and y.com that both publish 'v=spf1 ip4:1.1.1.1 -all' give
\* 'v=spf1 ip4:1.1.1.1 -all'.
C28_RecordLayout ==
  flat.at = "done" =>
    LET terms == splitWs(flat.flattenedSpf)
        n == Len(terms)
    IN /\ terms[1] = <<"v=spf1">>
       /\ \A i, j \in 1..n : terms[i] = terms[j] => i = j
       /\ \A i, j \in 2..n :
            (i < j /\ IsModifierTerm(terms[i])) => IsModifierTerm(terms[j])
       /\ \A i \in 1..(n - 1) : terms[i] \notin AllVariants
       /\ (Listed(flat.resolved.modifiers) \cap AllVariants # {})
            => terms[n] \in AllVariants
       /\ InCollectedOrder(terms, flat.resolved.mechanisms)
       /\ InCollectedOrder(terms, SelectSeq(flat.resolved.modifiers,
                                            IsOtherModifier))
       /\ (/\ flat.txt = "same"
           /\ flat.base = <<"v=spf1", " ", "include:", "x.com", " ",
                            "include:", "y.com", " ", "-", "all">>)
            => flat.flattenedSpf =
                 <<"v=spf1", " ", "ip4:", "1.1.1.1", " ", "-", "all">>

\* The record the flattening was first given has no include.
NoIncludeGiven ==
  \A part \in TermsOf(flat.given) : ~StartsWith(part, "include:")

\* C29: the record built from a record without include has the terms of
\* that record and the all modifier last, and the record built from it in
\* turn is the same record.
C29_FlatRecordUnchanged ==
  (flat.at = "done" /\ NoIncludeGiven) =>
    LET terms == splitWs(flat.flattenedSpf)
    IN /\ flat.pass = 1 =>
            /\ Listed(terms) = TermsOf(flat.given)
            /\ terms[Len(terms)] \in AllVariants
       /\ flat.pass = 2 => flat.flattenedSpf = flat.previous


\* The terms C30 says are kept verbatim as mechanisms: bare a and mx, ip4:
\* and ip6: terms, and every term that is none of the recognised forms.
KeptVerbatim(part) ==
  /\ part # <<"v=spf1">>
  /\ ~IsModifierTerm(part)
  /\ ~StartsWith(part, "include:")
  /\ ~StartsWith(part, "a:")
  /\ ~StartsWith(part, "mx:")

\* The loop of the running call has handled its current part without
\* starting a deeper call.
PartHandled ==
  /\ InLoop
  /\ Len(flat'.stack) = Len(flat.stack)
  /\ flat'.stack[Len(flat.stack)].i = TopFrame.i + 1

\* What the handling of the current part did to the two lists of the call.
ListsAfter(mechanisms, modifiers) ==
  /\ flat'.stack[Len(flat.stack)].mechanisms = mechanisms
  /\ flat'.stack[Len(flat.stack)].modifiers = modifiers

HandledAsClaimed ==
  LET part == CurrentPart
      top == TopFrame
  IN /\ part = <<"v=spf1">> => ListsAfter(top.mechanisms, top.modifiers)
     /\ IsModifierTerm(part) =>
          ListsAfter(top.mechanisms, Append(top.modifiers, part))
     /\ KeptVerbatim(part) =>
          ListsAfter(Append(top.mechanisms, part), top.modifiers)
     /\ StartsWith(part, "include:") =>
          ListsAfter(top.mechanisms, top.modifiers)

\* No list of a running call and no list returned holds an include term.
NoIncludeCollected ==
  /\ \A n \in DOMAIN flat.stack :
       \A term \in Listed(flat.stack[n].mechanisms)
                     \cup Listed(flat.stack[n].modifiers) :
         ~StartsWith(term, "include:")
  /\ \A term \in Listed(flat.resolved.mechanisms)
                   \cup Listed(flat.resolved.modifiers) :
       ~StartsWith(term, "include:")

\* C30: the version token adds nothing; a redirect= term and an all variant
\* are appended to the modifiers; a bare a or mx, an ip4:, ip6: or
\* unrecognised term is appended as it is to the mechanisms; an include
\* adds no term of its own, whether it was looked up or skipped, and no
\* include term is in a list of any call.
C30_TermsClassified ==
  /\ []NoIncludeCollected
  /\ [][PartHandled => HandledAsClaimed]_vars

\* A resolution has returned with a redirect among its modifiers and an
\* unrecognised term and a bare mx among its mechanisms, after includes
\* that were resolved and one that was skipped.
C30_Witness ==
  /\ flat.at = "build"
  /\ Len(flat.skipped) > 0
  /\ <<"redirect=", "z.com">> \in Listed(flat.resolved.modifiers)
  /\ <<"-", "all">> \in Listed(flat.resolved.modifiers)
  /\ <<"exists:", "%{i}.z.com">> \in Listed(flat.resolved.mechanisms)
  /\ <<"mx">> \in Listed(flat.resolved.mechanisms)


\* ------------------------------------------------------------------------
\* Claims about normalizeDMARC, the payload of updateZone and the health
\* checks

IsWord(c) == c \notin WS

\* The characters of a record that are not whitespace, in order.
WordsOf(record) == SelectSeq(record, IsWord)

\* The places of a record where whitespace counts: k is one when whitespace
\* stands between the k-th and the k+1-th word and the k-th word is not a
\* semicolon.
GapsOf(record) ==
  LET words == WordsOf(record)
      before(i) == Cardinality({j \in 1..(i - 1) : IsWord(record[j])})
  IN {k \in 1..(Len(words) - 1) :
        /\ words[k] # ";"
        /\ \E i \in DOMAIN record : record[i] \in WS /\ before(i) = k}

\* Two records differ at most in whitespace after semicolons, in the length
\* and kind of their whitespace runs and in whitespace at their ends.
SameUpToWhitespace(a, b) == WordsOf(a) = WordsOf(b) /\ GapsOf(a) = GapsOf(b)

\* A record has no whitespace but single blanks between two words of which
\* the first is not a semicolon.
IsNormalized(record) ==
  \A i \in DOMAIN record :
    record[i] \in WS =>
      /\ record[i] = " "
      /\ 1 < i /\ i < Len(record)
      /\ IsWord(record[i - 1]) /\ record[i - 1] # ";"
      /\ IsWord(record[i + 1])

UpdateZoneGoesOn ==
  /\ api.op = "updateZone"
  /\ api.phase \notin {"idle", "done"}
  /\ api'.op = "updateZone"

\* C32: what updateZone has put is the zone object it was given without
\* created, updated, owner, updater and roid, every other field as given;
\* in dry-run nothing is put; the object given is the same after every
\* attempt.
C32_PayloadWithoutReadOnlyFields ==
  /\ [](api.op = "updateZone" =>
          IF api.sent > 0
            THEN /\ ~dryRun
                 /\ DOMAIN api.put =
                      DOMAIN api.payload
                        \ {"created", "updated", "owner", "updater", "roid"}
                 /\ \A f \in DOMAIN api.put : api.put[f] = api.payload[f]
            ELSE api.put = <<>>)
  /\ [][UpdateZoneGoesOn => api'.payload = api.payload]_vars

\* A zone object with its server-assigned fields has been put a second time
\* after a failed attempt.
C32_Witness ==
  /\ api.op = "updateZone"
  /\ api.sent >= 2
  /\ api.phase = "done"
  /\ api.result.kind = "value"
  /\ {"created", "updated", "owner", "updater", "roid", "resourceRecords"}
       \subseteq DOMAIN api.payload
  /\ "resourceRecords" \in DOMAIN api.put


\* The timer is cleared: no tick fires, the token count does not go up and
\* the timer stays cleared.
NoRefillOnceCleared ==
  ~refillTimer =>
    /\ ticks' = ticks
    /\ autodnsRate'.tokens <= autodnsRate.tokens
    /\ ~refillTimer'

\* C33: once shutdownAutoDNSRateLimiter has been called no tick fires and
\* the token count never goes up, and a run that has entered its try block
\* has called it when it is over, failed or not.
C33_ShutdownOnCompletion ==
  /\ [][NoRefillOnceCleared]_vars
  /\ []((main.entered /\ main.at \in MainEnded) =>
          (main.shutdowns > 0 /\ ~refillTimer))

\* The part of C33 that is about the limiter alone.
C33_NoRefillAfterShutdown == [][NoRefillOnceCleared]_vars

\* The part of C33 that is about a run that did not fail.
C33_ShutdownAfterSuccess ==
  (main.entered /\ ~main.failed /\ main.at \in MainEnded) =>
    (main.shutdowns > 0 /\ ~refillTimer)


\* The lookups each check of the summary makes.
OwnLookups ==
  [NS |-> {"ns", "nsHosts"}, SOA |-> {"soa"}, CAA |-> {"caa"},
   MTA |-> {"mtaTxt", "https"}, TLS |-> {"tlsTxt"},
   PTR |-> {"mx", "mxA", "ptr"}]

\* The lookups that can fail.
FailingLookups ==
  {"ns", "nsHosts", "soa", "caa", "mtaTxt", "https", "tlsTxt", "mxA", "ptr"}

\* The lookups of the domain with one of them failing.
WithFailing(lookup) == [health.lookups EXCEPT ![lookup] = "error"]

\* C34: whatever its lookups answer, each of the seven checks returns a
\* result and addHealthChecks does not end in its catch block; the flag a
\* check has in the summary is the one it has when a lookup of another
\* check fails.
C34_ChecksNeverRaise ==
  health.at = "done" =>
    /\ ~health.raised
    /\ checkNS(health.lookups).ok
    /\ checkSOA(health.lookups).ok
    /\ checkCAA(health.lookups).ok
    /\ checkMtaSts(health.lookups).ok
    /\ checkTlsRpt(health.lookups).ok
    /\ checkPTRForOutbound(health.lookups).ok
    /\ checkMXIntegrity(health.lookups, mxHostsOf(health.lookups)).ok
    /\ \A lookup \in FailingLookups : \A check \in DOMAIN OwnLookups :
         lookup \notin OwnLookups[check] =>
           addHealthChecks(WithFailing(lookup)).healthSummary[check]
             = health.healthSummary[check]

\* The SOA lookup failed and the policy file could not be fetched: SOA and
\* MTA are flagged as failed, NS, TLS and PTR as ok.
C34_Witness ==
  /\ health.at = "done"
  /\ health.lookups.soa = "error"
  /\ health.lookups.https = "error"
  /\ health.healthSummary.SOA = "fail"
  /\ health.healthSummary.MTA = "fail"
  /\ health.healthSummary.NS = "ok"
  /\ health.healthSummary.TLS = "ok"
  /\ health.healthSummary.PTR = "ok"


\* ------------------------------------------------------------------------
\* Claims about the state of the limiter, its ticks and its shutdown

\* The callers a step has released.
ReleasedByStep == Len(granted') - Len(granted)

\* C35: the token count is between 0 and the capacity 3 in every state, a
\* caller waits only while the count is 0, and a refill makes the count the
\* capacity, less one per caller it releases, whatever the count was.
C35_TokensWithinCapacity ==
  /\ [](/\ autodnsRate.capacity = 3
        /\ autodnsRate.tokens \in 0..autodnsRate.capacity
        /\ Len(autodnsRate.queue) > 0 => autodnsRate.tokens = 0)
  /\ [][ticks' = ticks + 1 =>
          autodnsRate'.tokens + ReleasedByStep = autodnsRate.capacity]_vars

\* A tick has fired while two tokens were unused, and the count is the
\* capacity.
C35_Witness ==
  /\ ticks = 1
  /\ Len(callLog) = 1
  /\ callLog[1].tick = 0
  /\ autodnsRate.tokens = 3

\* The place in the queue a caller had when it called: one more than the
\* callers before it that were released by a later tick than the last one
\* before its call.
PlaceAtCall(id) ==
  1 + Cardinality({j \in 1..(id - 1) :
                     \E h \in DOMAIN granted :
                       /\ granted[h].id = j
                       /\ granted[h].via = "tick"
                       /\ granted[h].tick > callLog[id].tick})

\* The caller waits.
Waits(id) == \E k \in DOMAIN autodnsRate.queue : autodnsRate.queue[k] = id

\* The ticks of the model suffice to release the caller.
TicksLeftFor(id) ==
  \E k \in DOMAIN autodnsRate.queue :
    autodnsRate.queue[k] = id /\ ticks + ((k + 2) \div 3) <= MaxTicks

\* C36: a caller released by a tick had place k in the queue at the first
\* tick after its call and is released by the ceil(k/3)-th tick from then;
\* while the timer runs every caller that waits is released.
C36_QueuedEventuallyReleased ==
  /\ [](\A g \in DOMAIN granted :
          granted[g].via = "tick" =>
            granted[g].tick =
              callLog[granted[g].id].tick
                + ((PlaceAtCall(granted[g].id) + 2) \div 3))
  /\ \A id \in 1..MaxCalls :
       (Waits(id) /\ TicksLeftFor(id)) ~> (IsGranted(id) \/ ~refillTimer)

\* A caller that had the fourth place in the queue was released by the
\* second tick.
C36_Witness ==
  \E g \in DOMAIN granted :
    /\ granted[g].via = "tick"
    /\ PlaceAtCall(granted[g].id) = 4
    /\ granted[g].tick = callLog[granted[g].id].tick + 2

\* A step that ends with the timer cleared releases nobody: the callers
\* that wait go on waiting, in their places.
NobodyReleased ==
  /\ granted' = granted \/ ReleasedByStep = 1
  /\ \A g \in DOMAIN granted' : g > Len(granted) => granted'[g].via = "immediate"
  /\ Len(autodnsRate'.queue) >= Len(autodnsRate.queue)
  /\ SubSeq(autodnsRate'.queue, 1, Len(autodnsRate.queue)) = autodnsRate.queue

\* C37: the shutdown and every step after it release no caller that waits:
\* the callers queued when the timer was cleared and those that find no
\* token afterwards stay in the queue.
C37_ShutdownReleasesNobody == [][~refillTimer' => NobodyReleased]_vars

\* The timer is cleared and a tick has been due since; a caller that came
\* before that and one that came after it are waiting.
C37_Witness ==
  /\ ~refillTimer
  /\ clock >= (ticks + 1) * Slots
  /\ \E k \in DOMAIN autodnsRate.queue :
       callLog[autodnsRate.queue[k]].at < (ticks + 1) * Slots
  /\ \E k \in DOMAIN autodnsRate.queue :
       callLog[autodnsRate.queue[k]].at >= (ticks + 1) * Slots


\* ------------------------------------------------------------------------
\* Claims about the DKIM status

\* checkDKIMForDomain has set the status from dkimResults and is at the loop
\* over the desired selectors.
AtEnsureLoop == pc = "dkimEnsure"

\* C39: the DKIM status is an ok status that lists selectors only when some
\* DKIM record was found, in DNS or in the zone: a selector whose lookup
\* failed with an error other than absence is not among the found ones.
C39_OkOnlyWhenFound ==
  (AtEnsureLoop /\ result.dkimStatus.kind = "ok-selectors") =>
    /\ \E k \in DOMAIN loc.dkimResults : loc.dkimResults[k].found
    /\ \A k \in DOMAIN result.dkimStatus.detail :
         \E j \in DOMAIN loc.dkimResults :
           /\ loc.dkimResults[j].selector = result.dkimStatus.detail[k]
           /\ loc.dkimResults[j].found

\* C40: once the write for a desired selector has failed, the DKIM status of
\* the run is an error status and stays one, whatever the writes for the
\* selectors after it do.
C40_ErrorStatusKept ==
  [][result.dkimStatus.kind = "error" => result'.dkimStatus.kind = "error"]_vars


\* ------------------------------------------------------------------------
\* Claims about a repeated run

\* The zone writes a run has issued so far.
IsZoneWrite(call) == call.op = "updateZone"
WritesOf(calls) == SelectSeq(calls, IsZoneWrite)

\* Every desired selector with a value is one of config.dkimSelectors.
DesiredAreChecked ==
  \A k \in DOMAIN dkimConfig[domain] :
    \/ IsBlank(dkimConfig[domain][k].value)
    \/ \E i \in DOMAIN dkimSelectors :
         dkimSelectors[i] = dkimConfig[domain][k].selector

\* C38: after a run outside dry-run in which no write failed, the resolver
\* answering from the zones, the run repeated for the same domain with the
\* same configuration issues no zone write: not for SPF, DMARC, a DKIM
\* selector or the reporting authorization.
C38_SecondRunWritesNothing ==
  first.phase = "second" => WritesOf(trace) = <<>>

\* The same for the configurations whose desired selectors are looked up.
C38_ConvergesForCheckedSelectors ==
  (first.phase = "second" /\ DesiredAreChecked) => WritesOf(trace) = <<>>

\* A first run that wrote SPF, DMARC, the authorization and a selector has
\* been repeated to its end.
C38_RepeatedAfterWrites ==
  /\ first.phase = "second"
  /\ pc = "done"
  /\ \A by \in {"spf", "dmarc", "auth", "dkim"} :
       \E k \in DOMAIN first.trace :
         first.trace[k].by = by /\ first.trace[k].op = "updateZone"

====
